---- MODULE Spec2Model ----
(***************************************************************************)
(* CIVIC-OS: the signed append-only log (civic_os/signed_memory.py), the   *)
(* audit gate (civic_os/audit_gate.py), the falsifier engine               *)
(* (civic_os/falsifier_engine.py) and the metric deltas                    *)
(* (civic_os/metrics.py) as state machines.                                *)
(*                                                                         *)
(* A sha256 / hmac digest is modelled as an ideal (injective) hash: the    *)
(* digest of a text is the tagged text itself.  The empty string "" in a   *)
(* hash or signature field is the empty tuple.                             *)
(*                                                                         *)
(* A metric or threshold is an exact number of hundredths (100 is 1.0);    *)
(* the rounding of binary floating point is not modelled.                  *)
(***************************************************************************)
EXTENDS Integers, Sequences, FiniteSets, TLC

\* ---------------------------------------------------------------------
\* Bounds
\* ---------------------------------------------------------------------
\* largest number of lines append is allowed to grow the log to
MaxLen == 3

\* ---------------------------------------------------------------------
\* State
\* ---------------------------------------------------------------------
VARIABLES
    exists,     \* SignedMemory.path.exists()
    file,       \* the lines of signed_log.jsonl, in file order
    mem,        \* the SignedMemory objects: _seq, _prev_hash, _secret
    last,       \* the operation performed last, with the seq/prev_hash its caller passed
    report,     \* the value returned by the last verify_chain
    tampered,   \* the external edit made to the file, "none" when there was none
    artifacts,  \* AuditContext.artifacts: the bundle the caller has assembled
    edits,      \* number of changes the caller made to the bundle it started from
    audit,      \* the AuditReport returned by AuditGate.evaluate for artifacts
    snap,       \* MetricsSnapshot: the current and baseline metrics of the caller
    engine,     \* FalsifierEngine: thresholds and require_baseline
    medits,     \* number of changes the caller made to the snapshot it started from
    falsifier,  \* the FalsifierResult returned by FalsifierEngine.evaluate for snap
    deltas,     \* the pct of the MetricsDelta returned by Metrics.compute_deltas
    run         \* CivicOSOrchestrator.run: its input, its position and its outcome

logvars == <<exists, file, mem, last, report, tampered>>

auditvars == <<artifacts, edits, audit>>

falvars == <<snap, engine, medits, falsifier, deltas>>

vars ==
    <<exists, file, mem, last, report, tampered, artifacts, edits, audit,
      snap, engine, medits, falsifier, deltas, run>>

\* ---------------------------------------------------------------------
\* Values
\* ---------------------------------------------------------------------
Inst == {1, 2}

NoHash == <<>>

\* a value a caller may leave in SignedEntry.prev_hash / hash before append
JunkHash == <<"zz">>

\* os.getenv("SIGNING_SECRET", ""): "" disables signatures
Secrets == {"", "k1"}

Events == {"RUN_START", "RUN_END"}

\* payloads as Python values; "pa_tuple" is "pa" with a tuple where "pa" has a
\* list, so both serialise to the same JSON text
Payloads == {"pa", "pa_tuple", "pb"}

\* json.dumps of a payload, read back by json.loads
JsonForm(p) == IF p = "pa_tuple" THEN "pa" ELSE p

\* a payload an external editor writes into a persisted line
EvilPayload == "px"

\* SignedEntry objects as callers build them
CallerEntries ==
    { [run_id |-> "r1", seq |-> c[1], event |-> ev, payload |-> p,
       timestamp_utc |-> "t", prev_hash |-> c[2], hash |-> c[3], signature |-> NoHash]
      : ev \in Events, p \in Payloads,
        c \in { <<0, NoHash, NoHash>>, <<5, JunkHash, NoHash>>, <<0, NoHash, JunkHash>> } }

\* the entries the orchestrator's callers pass: seq and prev_hash left at values
\* append must overwrite
FewEntries ==
    { [run_id |-> "r1", seq |-> 5, event |-> "RUN_START", payload |-> p,
       timestamp_utc |-> "t", prev_hash |-> JunkHash, hash |-> NoHash,
       signature |-> NoHash] : p \in {"pa_tuple", "pb"} }

Sha256Hex(s) == <<"sha256", s>>

HmacSha256Hex(secret, msg) == <<"hmac", secret, msg>>

\* SignedEntry.to_dict
ToDict(e) ==
    [run_id |-> e.run_id, seq |-> e.seq, event |-> e.event,
     timestamp_utc |-> e.timestamp_utc, prev_hash |-> e.prev_hash,
     hash |-> e.hash, signature |-> e.signature, payload |-> e.payload]

\* _canonical_json: the members in sorted key order, the payload serialised
CanonicalJson(d) ==
    <<d.event, d.hash, JsonForm(d.payload), d.prev_hash, d.run_id, d.seq,
      d.signature, d.timestamp_utc>>

\* json.loads of a line written by _canonical_json
JsonLoads(t) ==
    [event |-> t[1], hash |-> t[2], payload |-> t[3], prev_hash |-> t[4],
     run_id |-> t[5], seq |-> t[6], signature |-> t[7], timestamp_utc |-> t[8]]

NoText == <<>>

\* a line of the file: JSON text of an object, text json.loads rejects, or blank
JsonLine(t) == [kind |-> "json", text |-> t]

GarbageLine == [kind |-> "garbage", text |-> NoText]

BlankLine == [kind |-> "blank", text |-> NoText]

Obj(k) == JsonLoads(file[k].text)

\* ---------------------------------------------------------------------
\* SignedMemory
\* ---------------------------------------------------------------------
\* loaded / tail / wrote are history fields: the number of lines in the file
\* and the kind of its last non-blank line when the object was constructed,
\* and the appends the object has made since
NoMem ==
    [alive |-> FALSE, seq |-> 0, prev_hash |-> NoHash, secret |-> "",
     loaded |-> 0, tail |-> "none", wrote |-> 0]

RECURSIVE LastNonBlank(_, _)
LastNonBlank(f, k) ==
    IF k = 0 THEN 0
    ELSE IF f[k].kind # "blank" THEN k
    ELSE LastNonBlank(f, k - 1)

\* the kind of the last non-blank line of the file, "none" without one
TailKind(ex, f) ==
    IF ~ex \/ LastNonBlank(f, Len(f)) = 0 THEN "none"
    ELSE f[LastNonBlank(f, Len(f))].kind

LoadTailSeqNoIncrement(ex, f, m) ==
    IF ~ex THEN m
    ELSE LET k == LastNonBlank(f, Len(f)) IN
         IF k = 0 THEN m
         ELSE IF f[k].kind = "json"
              THEN [m EXCEPT !.seq = JsonLoads(f[k].text).seq,
                             !.prev_hash = JsonLoads(f[k].text).hash]
              ELSE [m EXCEPT !.seq = 0, !.prev_hash = NoHash]

LoadTailCountLines(ex, f, m) ==
    IF ~ex THEN m
    ELSE LET k == LastNonBlank(f, Len(f)) IN
         IF k = 0 THEN m
         ELSE IF f[k].kind = "json"
              THEN [m EXCEPT !.seq = JsonLoads(f[k].text).seq + 1,
                             !.prev_hash = JsonLoads(f[k].text).hash]
              ELSE [m EXCEPT !.seq = k, !.prev_hash = NoHash]

\* _load_tail
LoadTail(ex, f, m) ==
    IF ~ex THEN m
    ELSE LET k == LastNonBlank(f, Len(f)) IN
         IF k = 0 THEN m
         ELSE IF f[k].kind = "json"
              THEN [m EXCEPT !.seq = JsonLoads(f[k].text).seq + 1,
                             !.prev_hash = JsonLoads(f[k].text).hash]
              ELSE [m EXCEPT !.seq = 0, !.prev_hash = NoHash]

\* _compute_hash
ComputeHash(entry_dict) ==
    Sha256Hex(CanonicalJson([entry_dict EXCEPT !.signature = NoHash]))

\* _compute_signature
ComputeSignature(m, entry_hash) ==
    IF m.secret = "" THEN NoHash ELSE HmacSha256Hex(m.secret, entry_hash)

StampEntryKeepCaller(m, entry) == [entry EXCEPT !.seq = m.seq]

\* append, lines 145-146
StampEntry(m, entry) == [entry EXCEPT !.seq = m.seq, !.prev_hash = m.prev_hash]

\* append, lines 148-150: the entry as written
SealEntry(m, entry) ==
    LET stamped == StampEntry(m, entry)
        h == ComputeHash(ToDict(stamped))
    IN [stamped EXCEPT !.hash = h, !.signature = ComputeSignature(m, h)]

AppendFileTruncating(f, line) == <<line>>

\* append, lines 153-154: open("a") and write one line
AppendFile(f, line) == Append(f, line)

NoReport ==
    [raised |-> FALSE, ok |-> FALSE, checked |-> 0, bad |-> 0, notes |-> <<>>,
     signature_enabled |-> FALSE, keys |-> {}]

NoLast == [op |-> "none", who |-> 0, seq_in |-> 0, prev_in |-> NoHash]

\* SignedMemory(run_dir): __init__
Construct(i, s) ==
    /\ mem' = [mem EXCEPT ![i] =
                  LoadTail(exists, file,
                           [alive |-> TRUE, seq |-> 0, prev_hash |-> NoHash,
                            secret |-> s, loaded |-> Len(file),
                            tail |-> TailKind(exists, file), wrote |-> 0])]
    /\ last' = [op |-> "construct", who |-> i, seq_in |-> 0, prev_in |-> NoHash]
    /\ report' = NoReport
    /\ UNCHANGED <<exists, file, tampered>>
    /\ UNCHANGED <<auditvars, falvars, run>>

\* SignedMemory.append
AppendEntry(i, entry) ==
    /\ mem[i].alive
    /\ Len(file) < MaxLen
    /\ LET sealed == SealEntry(mem[i], entry) IN
        /\ file' = AppendFile(file, JsonLine(CanonicalJson(ToDict(sealed))))
        /\ exists' = TRUE
        /\ mem' = [mem EXCEPT ![i].prev_hash = sealed.hash,
                              ![i].seq = @ + 1,
                              ![i].wrote = @ + 1]
    /\ last' = [op |-> "append", who |-> i, seq_in |-> entry.seq,
                prev_in |-> entry.prev_hash]
    /\ report' = NoReport
    /\ UNCHANGED tampered
    /\ UNCHANGED <<auditvars, falvars, run>>

\* ---------------------------------------------------------------------
\* verify_chain
\* ---------------------------------------------------------------------
\* notes[:20]
MaxNotes == 20

ChainMatchesAlways(obj, prev_hash) == TRUE

\* verify_chain, line 184
ChainMatches(obj, prev_hash) == obj.prev_hash = prev_hash

\* verify_chain, lines 189-191: only the signature is cleared before hashing
ExpectedHash(obj) == Sha256Hex(CanonicalJson([obj EXCEPT !.signature = NoHash]))

HashMatchesAlways(obj) == TRUE

\* verify_chain, line 192
HashMatches(obj) == obj.hash = ExpectedHash(obj)

\* verify_chain, lines 197-199
SignatureMatches(secret, obj) ==
    secret = "" \/ obj.signature = HmacSha256Hex(secret, ExpectedHash(obj))

Note(kind, obj) == <<kind, obj.seq>>

\* one iteration of the loop of verify_chain, lines 177-203
VerifyLine(acc, line, secret) ==
    IF line.kind = "blank" THEN acc
    ELSE IF line.kind # "json" THEN [acc EXCEPT !.raised = TRUE]
    ELSE LET obj == JsonLoads(line.text)
             n1 == IF ChainMatches(obj, acc.prev_hash) THEN <<>>
                   ELSE <<Note("Chain mismatch", obj)>>
             n2 == IF HashMatches(obj) THEN <<>>
                   ELSE <<Note("Hash mismatch", obj)>>
             n3 == IF SignatureMatches(secret, obj) THEN <<>>
                   ELSE <<Note("Signature mismatch", obj)>>
         IN [acc EXCEPT !.checked = @ + 1,
                        !.bad = @ + Len(n1) + Len(n2) + Len(n3),
                        !.notes = @ \o n1 \o n2 \o n3,
                        !.prev_hash = obj.hash]

RECURSIVE VerifyLines(_, _, _, _)
VerifyLines(f, k, acc, secret) ==
    IF k > Len(f) \/ acc.raised THEN acc
    ELSE VerifyLines(f, k + 1, VerifyLine(acc, f[k], secret), secret)

Raised == [NoReport EXCEPT !.raised = TRUE]

\* the dict verify_chain returns; Raised when json.loads throws out of it
VerifyReport(ex, f, secret) ==
    IF ~ex
    THEN [raised |-> FALSE, ok |-> TRUE, checked |-> 0, bad |-> 0,
          notes |-> << <<"No log found.", 0>> >>, signature_enabled |-> FALSE,
          keys |-> {"ok", "checked", "notes"}]
    ELSE LET acc == VerifyLines(f, 1,
                        [raised |-> FALSE, checked |-> 0, bad |-> 0,
                         notes |-> <<>>, prev_hash |-> NoHash], secret)
         IN IF acc.raised THEN Raised
            ELSE [raised |-> FALSE, ok |-> (acc.bad = 0), checked |-> acc.checked,
                  bad |-> acc.bad,
                  notes |-> SubSeq(acc.notes, 1,
                                   IF Len(acc.notes) < MaxNotes THEN Len(acc.notes)
                                   ELSE MaxNotes),
                  signature_enabled |-> (secret # ""),
                  keys |-> {"ok", "checked", "bad", "notes", "signature_enabled"}]

\* SignedMemory.verify_chain
VerifyChain(i) ==
    /\ mem[i].alive
    /\ report' = VerifyReport(exists, file, mem[i].secret)
    /\ last' = [op |-> "verify_chain", who |-> i, seq_in |-> 0, prev_in |-> NoHash]
    /\ UNCHANGED <<exists, file, mem, tampered>>
    /\ UNCHANGED <<auditvars, falvars, run>>

\* ---------------------------------------------------------------------
\* External edits of the persisted file (not operations of the program)
\* ---------------------------------------------------------------------
SetPayload(t, p) == [t EXCEPT ![3] = p]

RemoveAt(f, k) == SubSeq(f, 1, k - 1) \o SubSeq(f, k + 1, Len(f))

InsertAt(f, pos, line) == SubSeq(f, 1, pos) \o <<line>> \o SubSeq(f, pos + 1, Len(f))

Edited(kind) ==
    /\ tampered = "none"
    /\ tampered' = kind
    /\ last' = [op |-> "edit", who |-> 0, seq_in |-> 0, prev_in |-> NoHash]
    /\ report' = NoReport
    /\ UNCHANGED <<exists, mem>>
    /\ UNCHANGED <<auditvars, falvars, run>>

\* the payload of one persisted entry is changed; hash, prev_hash, signature stay
TamperPayload ==
    \E k \in 1..Len(file), p \in {"pa", "pb", EvilPayload} :
        /\ file[k].kind = "json"
        /\ p # Obj(k).payload
        /\ file' = [file EXCEPT ![k] = JsonLine(SetPayload(file[k].text, p))]
        /\ Edited("payload")

RemoveEntry ==
    \E k \in 1..Len(file) :
        /\ Len(file) >= 2
        /\ file' = RemoveAt(file, k)
        /\ Edited("remove")

InsertCopy ==
    \E k \in 1..Len(file), pos \in 0..Len(file) :
        /\ Len(file) >= 2
        /\ file' = InsertAt(file, pos, file[k])
        /\ Edited("insert")

SwapEntries ==
    \E j \in 1..Len(file), k \in 1..Len(file) :
        /\ j < k
        /\ file' = [file EXCEPT ![j] = file[k], ![k] = file[j]]
        /\ Edited("swap")

\* the tail of the file becomes unparseable: a torn last line, or junk after it,
\* with or without a trailing blank line
CorruptTail ==
    \E mode \in {"torn", "junk", "junk_blank"} :
        /\ exists
        /\ Len(file) >= 1
        /\ Len(file) < MaxLen
        /\ file' = CASE mode = "torn" -> [file EXCEPT ![Len(file)] = GarbageLine]
                     [] mode = "junk" -> Append(file, GarbageLine)
                     [] OTHER -> file \o <<GarbageLine, BlankLine>>
        /\ Edited("corrupt")


\* ---------------------------------------------------------------------
\* Audit gate: Python values
\* ---------------------------------------------------------------------
\* a value of a bundle: None (also: key absent), a string, a list of values,
\* a mapping, of which only the number of members matters, or a number
None == [t |-> "none", s |-> "", n |-> 0, items |-> <<>>]

Str(x) == [t |-> "str", s |-> x, n |-> 0, items |-> <<>>]

List(xs) == [t |-> "list", s |-> "", n |-> 0, items |-> xs]

Dict(n) == [t |-> "dict", s |-> "", n |-> n, items |-> <<>>]

Num(k) == [t |-> "num", s |-> "", n |-> k, items |-> <<>>]

\* str.strip on the strings of the model: "", " " (whitespace only) and "x"
Strip(x) == IF x = " " THEN "" ELSE x

\* bool(v)
Truthy(v) ==
    CASE v.t = "none" -> FALSE
      [] v.t = "str" -> v.s # ""
      [] v.t = "list" -> Len(v.items) > 0
      [] OTHER -> v.n > 0

\* a or b
Or(a, b) == IF Truthy(a) THEN a ELSE b

Or3(a, b, c) == Or(Or(a, b), c)

Or4(a, b, c, d) == Or(Or3(a, b, c), d)

Or5(a, b, c, d, e) == Or(Or4(a, b, c, d), e)

\* _is_nonempty_str
IsNonemptyStr(x) == x.t = "str" /\ Strip(x.s) # ""

\* _as_list
AsList(x) ==
    IF x.t = "none" THEN List(<<>>)
    ELSE IF x.t = "list" THEN x
    ELSE List(<<x>>)

\* len(x) of a list
PyLen(x) == Len(x.items)

IsMissingNoneOnly(val) == val.t = "none"

\* _count_missing_required, lines 127-134: the test made on one value
IsMissing(val) ==
    \/ val.t = "none"
    \/ val.t = "str" /\ Strip(val.s) = ""
    \/ val.t = "list" /\ Len(val.items) = 0
    \/ val.t = "dict" /\ val.n = 0

\* _count_missing_required: required is a sequence of <<name, value>>
RECURSIVE CountMissingRequired(_)
CountMissingRequired(required) ==
    IF required = <<>> THEN <<>>
    ELSE (IF IsMissing(Head(required)[2]) THEN <<Head(required)[1]>> ELSE <<>>)
         \o CountMissingRequired(Tail(required))

\* ---------------------------------------------------------------------
\* Audit gate: the artifact bundle
\* ---------------------------------------------------------------------
Docs == {"IC", "ES", "FPF", "WM", "SM", "DS", "AP"}

\* the keys the gates read; <<"TOP", k>> is a key of the bundle itself
DocKeys ==
    [IC |-> {"Citizen summary", "citizen_summary", "Goal", "goal", "Deliverable",
             "deliverable", "Success metrics", "success_metrics"},
     ES |-> {"Facts", "facts", "Assumptions", "assumptions", "Sources", "sources"},
     FPF |-> {"Falsifiers", "falsifiers", "Minimal tests", "MinimalTests",
              "minimal_tests", "Levers", "levers", "Variables", "variables"},
     WM |-> {"Causal structure", "causal_structure", "CausalStructure", "Loops",
             "loops", "Delays", "delays", "Bottlenecks", "bottlenecks"},
     SM |-> {"Actors & incentives", "Actors", "actors", "Incentives", "incentives",
             "Corruption surfaces", "corruption_surfaces",
             "Hidden costs/externalities", "hidden_costs"},
     DS |-> {"Option A", "OptionA", "Option B", "OptionB", "Option C", "OptionC",
             "options", "Global downside bound", "GlobalDownsideBound",
             "DownsideBound", "Rollback plan", "Rollback", "Kill-switch",
             "KillSwitch"},
     AP |-> {"Rollback", "rollback", "Kill-switch", "KillSwitch", "Stages",
             "stages", "Steps", "steps", "Thresholds", "thresholds",
             "Metrics & thresholds", "metrics_thresholds", "Instrumentation",
             "instrumentation", "Citizen summary", "citizen_summary",
             "Execution checklist", "checklist", "Checklist"}]

AllKeys ==
    {<<"TOP", "CitizenSummary">>}
    \cup UNION { {<<d, k>> : k \in DocKeys[d]} : d \in Docs }

\* a document is a mapping ("dict"), absent / None / empty ("absent"), or a
\* non-empty value that is not a mapping ("bad")
EmptyBundle ==
    [docs |-> [d \in Docs |-> "absent"], fields |-> [k \in AllKeys |-> None]]

\* the bundle of test_audit_gate_passes_with_minimum_artifacts
PassingFields ==
    (<<"IC", "Goal">> :> Str("x")) @@ (<<"IC", "Deliverable">> :> Str("x"))
    @@ (<<"IC", "Success metrics">> :> List(<<Str("x")>>))
    @@ (<<"IC", "Citizen summary">> :> Str("x"))
    @@ (<<"ES", "Facts">> :> List(<<Str("x")>>))
    @@ (<<"ES", "Assumptions">> :> List(<<Str("x")>>))
    @@ (<<"ES", "Sources">> :> List(<<Str("x")>>))
    @@ (<<"FPF", "Variables">> :> List(<<Str("x")>>))
    @@ (<<"FPF", "Levers">> :> List(<<Str("x")>>))
    @@ (<<"FPF", "Falsifiers">> :> List(<<Str("x")>>))
    @@ (<<"FPF", "Minimal tests">> :> List(<<Str("x")>>))
    @@ (<<"WM", "Causal structure">> :> Str("x"))
    @@ (<<"WM", "Loops">> :> List(<<Str("x")>>))
    @@ (<<"WM", "Delays">> :> List(<<Str("x")>>))
    @@ (<<"WM", "Bottlenecks">> :> List(<<Str("x")>>))
    @@ (<<"SM", "Actors & incentives">> :> List(<<Str("x"), Str("x")>>))
    @@ (<<"SM", "Hidden costs/externalities">> :> List(<<Str("x")>>))
    @@ (<<"SM", "Corruption surfaces">> :> List(<<Str("x")>>))
    @@ (<<"DS", "Option A">> :> Dict(1)) @@ (<<"DS", "Option B">> :> Dict(1))
    @@ (<<"DS", "Global downside bound">> :> Str("x"))
    @@ (<<"DS", "Rollback plan">> :> Str("x"))
    @@ (<<"DS", "Kill-switch">> :> Str("x"))
    @@ (<<"AP", "Stages">> :> List(<<Str("x")>>))
    @@ (<<"AP", "Instrumentation">> :> Str("x"))
    @@ (<<"AP", "Metrics & thresholds">> :> Dict(1))
    @@ (<<"AP", "Rollback">> :> Str("x")) @@ (<<"AP", "Kill-switch">> :> Str("x"))
    @@ (<<"AP", "Execution checklist">> :> List(<<Str("x")>>))
    @@ (<<"AP", "Citizen summary">> :> Str("x"))

PassingBundle ==
    [docs |-> [d \in Docs |-> "dict"],
     fields |-> [k \in AllKeys |->
                    IF k \in DOMAIN PassingFields THEN PassingFields[k] ELSE None]]

\* (artifacts.get(doc) or {}).get(key)
Get(a, doc, key) ==
    IF doc = "TOP" \/ a.docs[doc] = "dict" THEN a.fields[<<doc, key>>] ELSE None

\* the values a caller puts under a key
FieldValues ==
    {None, Str(""), Str(" "), Str("x"), List(<<>>), List(<<Str(" ")>>),
     List(<<Str("x")>>), List(<<Str("x"), Str("x"), Str("x")>>),
     List(<<Dict(1)>>), Dict(0), Dict(1), Num(5)}

\* the keys the documented bundle is written with; the other keys are the
\* spellings the gates fall back to
DocumentedKeys == DOMAIN PassingFields \cup {<<"TOP", "CitizenSummary">>}

\* the values a caller puts under a fallback spelling
FallbackValues == {None, Str(" "), Str("x"), List(<<Str("x")>>), Dict(1)}

ValuesOf(k) == IF k \in DocumentedKeys THEN FieldValues ELSE FallbackValues

\* ---------------------------------------------------------------------
\* Audit gate: the five gates
\* ---------------------------------------------------------------------
\* _score_from, in thousandths: 1.0 - min(1.0, missing * 0.18 + penalties), floored at 0
ScoreFrom(missing, penalties) ==
    LET loss == IF missing * 180 + penalties < 1000
                THEN missing * 180 + penalties ELSE 1000
    IN IF 1000 - loss > 0 THEN 1000 - loss ELSE 0

\* GateResult(gate, verdict, notes, fixes, score); notes and fixes are named
\* by short labels instead of their text
GateResult(gate, verdict, notes, fixes, score) ==
    [gate |-> gate, verdict |-> verdict, notes |-> notes, fixes |-> fixes,
     score |-> score]

If(c, x) == IF c THEN <<x>> ELSE <<>>

\* _has_any_textual_evidence
HasAnyTextualEvidence(a) ==
    LET facts == AsList(Or(Get(a, "ES", "Facts"), Get(a, "ES", "facts")))
        sources == AsList(Or(Get(a, "ES", "Sources"), Get(a, "ES", "sources")))
        Counts(x) == IsNonemptyStr(x) \/ x.t = "dict"
    IN \/ \E i \in 1..PyLen(facts) : Counts(facts.items[i])
       \/ \E i \in 1..PyLen(sources) : Counts(sources.items[i])

\* ds.get("Option A") or ds.get("OptionA") or ds.get("options")
DecisionsExist(a) ==
    Truthy(Or3(Get(a, "DS", "Option A"), Get(a, "DS", "OptionA"),
               Get(a, "DS", "options")))

\* AuditGate._truth_gate
TruthGate(a) ==
    LET facts == AsList(Or(Get(a, "ES", "Facts"), Get(a, "ES", "facts")))
        assumptions ==
            AsList(Or(Get(a, "ES", "Assumptions"), Get(a, "ES", "assumptions")))
        falsifiers ==
            AsList(Or(Get(a, "FPF", "Falsifiers"), Get(a, "FPF", "falsifiers")))
        minimal_tests ==
            AsList(Or3(Get(a, "FPF", "Minimal tests"), Get(a, "FPF", "MinimalTests"),
                       Get(a, "FPF", "minimal_tests")))
        missing ==
            CountMissingRequired(<< <<"ES.Facts", facts>>,
                                    <<"ES.Assumptions", assumptions>>,
                                    <<"FPF.Falsifiers", falsifiers>> >>)
        evidence == HasAnyTextualEvidence(a)
        narrative == DecisionsExist(a) /\ PyLen(facts) = 0
        untested == Truthy(falsifiers) /\ PyLen(minimal_tests) = 0
    IN GateResult("Truth Gate",
           IF Len(missing) = 0 /\ evidence THEN "PASS" ELSE "FAIL",
           If(missing # <<>>, "truth_missing") \o If(~evidence, "truth_evidence")
               \o If(narrative, "truth_narrative") \o If(untested, "truth_tests"),
           If(missing # <<>>, "fix_truth_missing") \o If(~evidence, "fix_truth_evidence")
               \o If(narrative, "fix_truth_narrative") \o If(untested, "fix_truth_tests"),
           ScoreFrom(Len(missing), IF ~evidence THEN 200 ELSE 0))

\* the options count of _logic_gate, lines 254-263
OptionsCount(a) ==
    LET optA == Or(Get(a, "DS", "Option A"), Get(a, "DS", "OptionA"))
        optB == Or(Get(a, "DS", "Option B"), Get(a, "DS", "OptionB"))
        optC == Or(Get(a, "DS", "Option C"), Get(a, "DS", "OptionC"))
        options_list == Get(a, "DS", "options")
        n == (IF Truthy(optA) THEN 1 ELSE 0) + (IF Truthy(optB) THEN 1 ELSE 0)
             + (IF Truthy(optC) THEN 1 ELSE 0)
    IN IF options_list.t = "list" /\ PyLen(options_list) > n
       THEN PyLen(options_list) ELSE n

\* AuditGate._logic_gate
LogicGate(a) ==
    LET causal == Or3(Get(a, "WM", "Causal structure"), Get(a, "WM", "causal_structure"),
                      Get(a, "WM", "CausalStructure"))
        loops == AsList(Or(Get(a, "WM", "Loops"), Get(a, "WM", "loops")))
        delays == AsList(Or(Get(a, "WM", "Delays"), Get(a, "WM", "delays")))
        bottlenecks ==
            AsList(Or(Get(a, "WM", "Bottlenecks"), Get(a, "WM", "bottlenecks")))
        options_count == OptionsCount(a)
        levers == AsList(Or(Get(a, "FPF", "Levers"), Get(a, "FPF", "levers")))
        variables == AsList(Or(Get(a, "FPF", "Variables"), Get(a, "FPF", "variables")))
        missing ==
            CountMissingRequired(<< <<"WM.Causal structure", causal>>,
                                    <<"FPF.Variables", variables>>,
                                    <<"FPF.Levers", levers>> >>)
        linear == PyLen(loops) = 0 /\ PyLen(delays) = 0 /\ PyLen(bottlenecks) = 0
    IN GateResult("Logic Gate",
           IF Len(missing) = 0 /\ options_count >= 2 THEN "PASS" ELSE "FAIL",
           If(missing # <<>>, "logic_missing") \o If(options_count < 2, "logic_options")
               \o If(linear, "logic_linear"),
           If(missing # <<>>, "fix_logic_missing")
               \o If(options_count < 2, "fix_logic_options")
               \o If(linear, "fix_logic_linear"),
           ScoreFrom(Len(missing), IF options_count < 2 THEN 150 ELSE 0))

\* AuditGate._risk_gate
RiskGate(a) ==
    LET downside == Or3(Get(a, "DS", "Global downside bound"),
                        Get(a, "DS", "GlobalDownsideBound"), Get(a, "DS", "DownsideBound"))
        rollback == Or4(Get(a, "DS", "Rollback plan"), Get(a, "DS", "Rollback"),
                        Get(a, "AP", "Rollback"), Get(a, "AP", "rollback"))
        kill_switch == Or4(Get(a, "DS", "Kill-switch"), Get(a, "DS", "KillSwitch"),
                           Get(a, "AP", "Kill-switch"), Get(a, "AP", "KillSwitch"))
        stages == AsList(Or4(Get(a, "AP", "Stages"), Get(a, "AP", "stages"),
                             Get(a, "AP", "Steps"), Get(a, "AP", "steps")))
        thresholds == Or4(Get(a, "AP", "Thresholds"), Get(a, "AP", "thresholds"),
                          Get(a, "AP", "Metrics & thresholds"),
                          Get(a, "AP", "metrics_thresholds"))
        instrumentation ==
            Or(Get(a, "AP", "Instrumentation"), Get(a, "AP", "instrumentation"))
        missing ==
            CountMissingRequired(<< <<"DS.Global downside bound", downside>>,
                                    <<"AP.Rollback", rollback>>,
                                    <<"AP.Kill-switch", kill_switch>> >>)
        blind == ~Truthy(thresholds) \/ ~Truthy(instrumentation)
    IN GateResult("Risk Gate",
           IF Len(missing) = 0 /\ PyLen(stages) > 0 THEN "PASS" ELSE "FAIL",
           If(missing # <<>>, "risk_missing") \o If(PyLen(stages) = 0, "risk_stages")
               \o If(blind, "risk_instrumentation"),
           If(missing # <<>>, "fix_risk_missing") \o If(PyLen(stages) = 0, "fix_risk_stages")
               \o If(blind, "fix_risk_instrumentation"),
           ScoreFrom(Len(missing), IF PyLen(stages) = 0 THEN 150 ELSE 0))

\* AuditGate._bias_gate
BiasGate(a) ==
    LET actors == AsList(Or3(Get(a, "SM", "Actors & incentives"), Get(a, "SM", "Actors"),
                             Get(a, "SM", "actors")))
        incentives == AsList(Or(Get(a, "SM", "Incentives"), Get(a, "SM", "incentives")))
        corruption == AsList(Or(Get(a, "SM", "Corruption surfaces"),
                                Get(a, "SM", "corruption_surfaces")))
        hidden_costs == AsList(Or(Get(a, "SM", "Hidden costs/externalities"),
                                  Get(a, "SM", "hidden_costs")))
        missing ==
            CountMissingRequired(
                << <<"SM.Actors/Incentives", IF Truthy(actors) THEN actors ELSE incentives>>,
                   <<"SM.Corruption surfaces", corruption>>,
                   <<"SM.Hidden costs/externalities", hidden_costs>> >>)
        facts == AsList(Or(Get(a, "ES", "Facts"), Get(a, "ES", "facts")))
        drift == PyLen(facts) < 3 /\ DecisionsExist(a)
    IN GateResult("Bias Gate",
           IF Len(missing) = 0 THEN "PASS" ELSE "FAIL",
           If(missing # <<>>, "bias_missing") \o If(drift, "bias_drift"),
           If(missing # <<>>, "fix_bias_missing") \o If(drift, "fix_bias_drift"),
           ScoreFrom(Len(missing), IF PyLen(facts) < 3 THEN 100 ELSE 0))

\* the citizen summary _clarity_gate looks at, lines 382-388
CitizenSummary(a) ==
    Or5(Get(a, "TOP", "CitizenSummary"), Get(a, "IC", "Citizen summary"),
        Get(a, "IC", "citizen_summary"), Get(a, "AP", "Citizen summary"),
        Get(a, "AP", "citizen_summary"))

\* AuditGate._clarity_gate
ClarityGate(a) ==
    LET citizen_summary == CitizenSummary(a)
        goal == Or(Get(a, "IC", "Goal"), Get(a, "IC", "goal"))
        deliverable == Or(Get(a, "IC", "Deliverable"), Get(a, "IC", "deliverable"))
        success_metrics ==
            Or(Get(a, "IC", "Success metrics"), Get(a, "IC", "success_metrics"))
        checklist == Or3(Get(a, "AP", "Execution checklist"), Get(a, "AP", "checklist"),
                         Get(a, "AP", "Checklist"))
        missing ==
            CountMissingRequired(<< <<"IC.Goal", goal>>,
                                    <<"IC.Deliverable", deliverable>>,
                                    <<"IC.Success metrics", success_metrics>> >>)
        nosummary == ~IsNonemptyStr(citizen_summary)
    IN GateResult("Clarity Gate",
           IF Len(missing) = 0 /\ IsNonemptyStr(citizen_summary) THEN "PASS" ELSE "FAIL",
           If(missing # <<>>, "clarity_missing") \o If(nosummary, "clarity_summary")
               \o If(~Truthy(checklist), "clarity_checklist"),
           If(missing # <<>>, "fix_clarity_missing") \o If(nosummary, "fix_clarity_summary")
               \o If(~Truthy(checklist), "fix_clarity_checklist"),
           ScoreFrom(Len(missing), IF ~Truthy(citizen_summary) THEN 100 ELSE 0))

\* ---------------------------------------------------------------------
\* Audit gate: evaluate
\* ---------------------------------------------------------------------
\* minimum_fixes = fixes[:8]
MaxFixes == 8

\* the de-duplicating loop of evaluate, lines 164-169, over the fixes in order
RECURSIVE Dedup(_, _)
Dedup(fs, acc) ==
    IF fs = <<>> THEN acc
    ELSE Dedup(Tail(fs),
               IF \E i \in 1..Len(acc) : acc[i] = Head(fs) THEN acc
               ELSE Append(acc, Head(fs)))

\* the loop of lines 164-169 without the test of the verdict
FixesAnyVerdict(grs) ==
    LET F[i \in 0..Len(grs)] == IF i = 0 THEN <<>> ELSE F[i - 1] \o grs[i].fixes
    IN F[Len(grs)]

RECURSIVE FailedFixes(_)
FailedFixes(grs) ==
    IF grs = <<>> THEN <<>>
    ELSE (IF Head(grs).verdict = "FAIL" THEN Head(grs).fixes ELSE <<>>)
         \o FailedFixes(Tail(grs))

\* AuditGate._summary: the verdict and the failed gates it names
Summary(overall, grs) ==
    [verdict |-> overall,
     failed |-> IF overall = "PASS" THEN <<>>
                ELSE SelectSeq([i \in 1..Len(grs) |->
                                   IF grs[i].verdict = "FAIL" THEN grs[i].gate ELSE ""],
                               LAMBDA g : g # "")]

NoAudit ==
    [returned |-> FALSE, raised |-> FALSE, overall_verdict |-> "", gate_results |-> <<>>,
     summary |-> [verdict |-> "", failed |-> <<>>], minimum_fixes |-> <<>>]

\* evaluate without the cut fixes[:8]
AuditEvaluateUncut(a) ==
    IF \E d \in Docs : a.docs[d] = "bad"
    THEN [NoAudit EXCEPT !.raised = TRUE]
    ELSE LET gate_results ==
                 <<TruthGate(a), LogicGate(a), RiskGate(a), BiasGate(a), ClarityGate(a)>>
             overall == IF \A i \in 1..5 : gate_results[i].verdict = "PASS"
                        THEN "PASS" ELSE "FAIL"
         IN [returned |-> TRUE, raised |-> FALSE, overall_verdict |-> overall,
             gate_results |-> gate_results,
             summary |-> Summary(overall, gate_results),
             minimum_fixes |-> Dedup(FailedFixes(gate_results), <<>>)]

\* AuditGate.evaluate; a document that is not a mapping makes .get raise
AuditEvaluate(a) ==
    IF \E d \in Docs : a.docs[d] = "bad"
    THEN [NoAudit EXCEPT !.raised = TRUE]
    ELSE LET gate_results ==
                 <<TruthGate(a), LogicGate(a), RiskGate(a), BiasGate(a), ClarityGate(a)>>
             overall == IF \A i \in 1..5 : gate_results[i].verdict = "PASS"
                        THEN "PASS" ELSE "FAIL"
             fixes == Dedup(FailedFixes(gate_results), <<>>)
         IN [returned |-> TRUE, raised |-> FALSE, overall_verdict |-> overall,
             gate_results |-> gate_results,
             summary |-> Summary(overall, gate_results),
             minimum_fixes |-> SubSeq(fixes, 1, IF Len(fixes) < MaxFixes
                                                THEN Len(fixes) ELSE MaxFixes)]


\* ---------------------------------------------------------------------
\* Metrics: values
\* ---------------------------------------------------------------------
\* the value under a metric key: the key is absent, None, a number, a
\* string float() parses, a string it does not parse, or a bool
Absent == [k |-> "absent", v |-> 0]

MNone == [k |-> "none", v |-> 0]

MNum(x) == [k |-> "num", v |-> x]

MNumStr(x) == [k |-> "numstr", v |-> x]

MGarbage == [k |-> "str", v |-> 0]

MBool(b) == [k |-> "bool", v |-> IF b THEN 1 ELSE 0]

\* Optional[float]
NoNum == [def |-> FALSE, v |-> 0]

Some(x) == [def |-> TRUE, v |-> x]

\* the keys the falsifier rules read
MetricKeys ==
    {"service_latency_median", "error_rate", "throughput", "disparity_index",
     "transparency_coverage", "shadow_paperwork_index", "citizen_burden_index"}

\* d.get(key)
MetricGet(m, key) == IF key \in DOMAIN m THEN m[key] ELSE Absent

\* falsifier_engine._num: float(x), None when x is None or float raises;
\* float(True) is 1.0
FalsifierNum(x) ==
    CASE x.k \in {"absent", "none", "str"} -> NoNum
      [] x.k = "bool" -> Some(x.v * 100)
      [] OTHER -> Some(x.v)

\* metrics._num: as above, but a bool is not a number
MetricsNum(x) ==
    CASE x.k \in {"absent", "none", "str", "bool"} -> NoNum
      [] OTHER -> Some(x.v)

\* an optional ratio num / den, den > 0
NoPct == [def |-> FALSE, num |-> 0, den |-> 1]

Abs(x) == IF x < 0 THEN 0 - x ELSE x

\* _pct_change without the test base == 0: a zero baseline counts as 1
PctChangeZeroBase(cur, base) ==
    IF ~cur.def \/ ~base.def THEN NoPct
    ELSE [def |-> TRUE, num |-> cur.v - base.v,
          den |-> IF base.v = 0 THEN 1 ELSE Abs(base.v)]

\* _pct_change (the same function in falsifier_engine.py and metrics.py)
PctChange(cur, base) ==
    IF ~cur.def \/ ~base.def THEN NoPct
    ELSE IF base.v = 0 THEN NoPct
    ELSE [def |-> TRUE, num |-> cur.v - base.v, den |-> Abs(base.v)]

\* change <= threshold and change >= threshold, the threshold in hundredths
PctLe(p, t) == p.num * 100 <= t * p.den

PctGe(p, t) == p.num * 100 >= t * p.den

\* ---------------------------------------------------------------------
\* Falsifier engine
\* ---------------------------------------------------------------------
\* FalsifierEngine.__init__: the default thresholds
DefaultThresholds ==
    [latency_improve |-> -10, error_worsen |-> 10, throughput_improve |-> 10,
     disparity_worsen |-> 5, transparency_min |-> 60, burden_worsen |-> 5,
     shadow_paperwork_worsen |-> 10]

\* dict.update
Update(d, o) ==
    [k \in DOMAIN d \cup DOMAIN o |-> IF k \in DOMAIN o THEN o[k] ELSE d[k]]

\* FalsifierEngine.__init__
FalsifierEngineInit(thresholds, require_baseline) ==
    [thresholds |-> Update(DefaultThresholds, thresholds),
     require_baseline |-> require_baseline]

\* the threshold overrides a caller passes: none, those of
\* test_falsifier_latency_down_errors_up_triggers, and stricter ones
ThresholdOverrides ==
    << <<>>,
       [latency_improve |-> -10, error_worsen |-> 10],
       [latency_improve |-> -20, transparency_min |-> 70, burden_worsen |-> 10] >>

\* MetricsSnapshot: current is a mapping; baseline is None (given = FALSE)
\* or a mapping.  shape tells whether current and baseline are what the
\* annotations say ("mappings") or one of them is a non-empty value without
\* .get, such as a list ("bad_current", "bad_baseline")
NoMetrics == [k \in MetricKeys |-> Absent]

Snapshot(current, given, baseline) ==
    [current |-> current, baseline |-> [given |-> given, m |-> baseline],
     shape |-> "mappings"]

\* bool(snap.baseline): a mapping with at least one key
BaseTruthy(base) == base.given /\ \E k \in MetricKeys : base.m[k].k # "absent"

\* FalsifierHit: code, severity and the evidence, title and recommendation
\* being fixed by the code
Hit(code, severity, evidence) ==
    [code |-> code, severity |-> severity, evidence |-> evidence]

NoFalsifierResult ==
    [returned |-> FALSE, raised |-> FALSE, verdict |-> "", hits |-> <<>>, summary |-> <<>>,
     recommended_actions |-> <<>>, locals |-> <<>>, metadata |-> <<>>]

\* line 143: self.require_baseline and not base, ignoring require_baseline
BaselineMissingAlways(e, base) == ~BaseTruthy(base)

\* line 143: self.require_baseline and not base
BaselineMissing(e, base) == e.require_baseline /\ ~BaseTruthy(base)

\* lines 164-165 with strict comparisons
LatencyDownErrorsUpStrict(latency_change, error_change, thresholds) ==
    /\ latency_change.def /\ error_change.def
    /\ ~PctGe(latency_change, thresholds.latency_improve)
    /\ ~PctLe(error_change, thresholds.error_worsen)

\* lines 164-165
LatencyDownErrorsUp(latency_change, error_change, thresholds) ==
    /\ latency_change.def /\ error_change.def
    /\ PctLe(latency_change, thresholds.latency_improve)
    /\ PctGe(error_change, thresholds.error_worsen)

\* lines 186-187
ThroughputUpDisparityUp(throughput_change, disparity_change, thresholds) ==
    /\ throughput_change.def /\ disparity_change.def
    /\ PctGe(throughput_change, thresholds.throughput_improve)
    /\ PctGe(disparity_change, thresholds.disparity_worsen)

\* lines 212-213 with trans_cur <= transparency_min
TransparencyBelowMinInclusive(trans_cur, thresholds) ==
    trans_cur.def /\ trans_cur.v <= thresholds.transparency_min

\* lines 212-213
TransparencyBelowMin(trans_cur, thresholds) ==
    trans_cur.def /\ trans_cur.v < thresholds.transparency_min

\* line 227
ShadowPaperworkGrows(shadow_change, thresholds) ==
    shadow_change.def /\ PctGe(shadow_change, thresholds.shadow_paperwork_worsen)

\* line 244
CitizenBurdenUp(burden_change, thresholds) ==
    burden_change.def /\ PctGe(burden_change, thresholds.burden_worsen)

\* lines 261-272 left out
ErrorRateExtremeNever(err_cur) == FALSE

\* line 262 with err_cur > 0.20
ErrorRateExtremeStrict(err_cur) == err_cur.def /\ err_cur.v > 20

\* line 262: err_cur is not None and err_cur >= 0.20
ErrorRateExtreme(err_cur) == err_cur.def /\ err_cur.v >= 20

\* lines 275-276 counting every hit
HighHitsAnySeverity(hits) == hits

\* line 275: the hits of severity HIGH
HighHits(hits) == SelectSeq(hits, LAMBDA h : h.severity = "HIGH")

\* the actions a rule appends when it fires (lines 155, 178-181, 200-203,
\* 223, 237-240, 254-257, 272), named by short labels instead of their text
ActionsOf(code) ==
    CASE code = "baseline_missing" -> <<"act_baseline">>
      [] code = "latency_down_errors_up" -> <<"act_freeze", "act_validation">>
      [] code = "throughput_up_disparity_up" -> <<"act_equity", "act_monitoring">>
      [] code = "transparency_claims_unverifiable_logs" -> <<"act_trace">>
      [] code = "shadow_paperwork_grows" -> <<"act_shadow_steps", "act_incentive">>
      [] code = "citizen_burden_up_after_digital" -> <<"act_journey", "act_policy">>
      [] OTHER -> <<"act_no_scale">>

\* the actions appended whether or not the rule fired
ActionsAlways(fired, code) == ActionsOf(code)

\* actions += [...] inside the if of a rule
ActionsIf(fired, code) == IF fired THEN ActionsOf(code) ELSE <<>>

\* a cap of 9
MaxActionsNine == 10 - 1

\* recommended_actions = dedup_actions[:10]
MaxActions == 10

\* FalsifierEngine.evaluate; cur.get or base.get raises AttributeError when
\* current or baseline is a non-empty value that is not a mapping
FalsifierEvaluate(s, e) ==
    IF s.shape # "mappings" THEN [NoFalsifierResult EXCEPT !.raised = TRUE] ELSE
    LET cur == s.current
        base == s.baseline
        thresholds == e.thresholds
        ch(key) ==
            PctChange(FalsifierNum(MetricGet(cur, key)),
                      IF BaseTruthy(base) THEN FalsifierNum(MetricGet(base.m, key))
                      ELSE NoNum)
        latency_change == ch("service_latency_median")
        error_change == ch("error_rate")
        throughput_change == ch("throughput")
        disparity_change == ch("disparity_index")
        trans_cur == FalsifierNum(MetricGet(cur, "transparency_coverage"))
        trans_base == IF BaseTruthy(base)
                      THEN FalsifierNum(MetricGet(base.m, "transparency_coverage"))
                      ELSE NoNum
        trans_change == PctChange(trans_cur, trans_base)
        shadow_change == ch("shadow_paperwork_index")
        burden_change == ch("citizen_burden_index")
        err_cur == FalsifierNum(MetricGet(cur, "error_rate"))
        r0 == BaselineMissing(e, base)
        r1 == LatencyDownErrorsUp(latency_change, error_change, thresholds)
        r2 == ThroughputUpDisparityUp(throughput_change, disparity_change, thresholds)
        r3 == TransparencyBelowMin(trans_cur, thresholds)
        r4 == ShadowPaperworkGrows(shadow_change, thresholds)
        r5 == CitizenBurdenUp(burden_change, thresholds)
        r6 == ErrorRateExtreme(err_cur)
        hits ==
            If(r0, Hit("baseline_missing", "MEDIUM", <<>>))
            \o If(r1, Hit("latency_down_errors_up", "HIGH",
                          <<latency_change, error_change>>))
            \o If(r2, Hit("throughput_up_disparity_up", "HIGH",
                          <<throughput_change, disparity_change>>))
            \o If(r3, Hit("transparency_claims_unverifiable_logs", "MEDIUM",
                          <<trans_cur, Some(thresholds.transparency_min)>>))
            \o If(r4, Hit("shadow_paperwork_grows", "HIGH", <<shadow_change>>))
            \o If(r5, Hit("citizen_burden_up_after_digital", "HIGH", <<burden_change>>))
            \o If(r6, Hit("error_rate_extreme", "HIGH", <<err_cur>>))
        actions ==
            ActionsIf(r0, "baseline_missing")
            \o ActionsIf(r1, "latency_down_errors_up")
            \o ActionsIf(r2, "throughput_up_disparity_up")
            \o ActionsIf(r3, "transparency_claims_unverifiable_logs")
            \o ActionsIf(r4, "shadow_paperwork_grows")
            \o ActionsIf(r5, "citizen_burden_up_after_digital")
            \o ActionsIf(r6, "error_rate_extreme")
        high_hits == HighHits(hits)
        dedup_actions == Dedup(actions, <<>>)
    IN [returned |-> TRUE, raised |-> FALSE,
        verdict |-> IF Len(high_hits) > 0 THEN "FALSIFIED" ELSE "OK",
        hits |-> hits,
        summary |-> IF Len(high_hits) > 0 THEN <<"FALSIFIED", Len(high_hits)>>
                    ELSE <<"OK">>,
        recommended_actions |->
            SubSeq(dedup_actions, 1,
                   IF Len(dedup_actions) < MaxActions THEN Len(dedup_actions)
                   ELSE MaxActions),
        locals |->
            [latency_change |-> latency_change, error_change |-> error_change,
             throughput_change |-> throughput_change,
             disparity_change |-> disparity_change, trans_change |-> trans_change,
             shadow_change |-> shadow_change, burden_change |-> burden_change],
        metadata |-> [require_baseline |-> e.require_baseline,
                      thresholds |-> thresholds]]

\* ---------------------------------------------------------------------
\* Metrics.compute_deltas
\* ---------------------------------------------------------------------
\* DEFAULT_REQUIRED_METRICS
RequiredMetrics ==
    <<"service_latency_median", "service_latency_p90", "throughput", "error_rate",
      "transparency_coverage", "citizen_burden_index", "disparity_index">>

\* Metrics.normalize: every key of the model is a required metric or ends
\* in _index, _rate or _coverage
Normalize(raw) ==
    [k \in DOMAIN raw |->
        IF raw[k].k # "absent" /\ MetricsNum(raw[k]).def
        THEN MNum(MetricsNum(raw[k]).v) ELSE raw[k]]

\* Metrics.validate
Validate(cur, base_given) ==
    LET Has(k) == MetricGet(cur, k).k \notin {"absent", "none"}
        missing == SelectSeq(RequiredMetrics, LAMBDA k : ~Has(k))
        non_numeric ==
            SelectSeq(RequiredMetrics,
                      LAMBDA k : Has(k) /\ ~MetricsNum(MetricGet(cur, k)).def)
    IN [ok |-> missing = <<>> /\ non_numeric = <<>>, missing |-> missing,
        non_numeric |-> non_numeric,
        notes |-> IF base_given THEN <<>> ELSE <<"baseline_missing">>]

NoDeltas ==
    [returned |-> FALSE, keys |-> {}, absolute |-> <<>>, pct |-> <<>>,
     validation |-> <<>>]

\* Metrics.compute_deltas; keys are the keys of the absolute and pct mappings;
\* dict(raw) in normalize raises when current or baseline is not a mapping
ComputeDeltas(s) ==
    IF s.shape # "mappings" THEN NoDeltas ELSE
    LET cur == Normalize(s.current)
        has_base == BaseTruthy(s.baseline)
        base == IF has_base THEN Normalize(s.baseline.m) ELSE NoMetrics
        keys == {k \in MetricKeys : cur[k].k # "absent" \/ base[k].k # "absent"}
        c(k) == MetricsNum(MetricGet(cur, k))
        b(k) == IF has_base THEN MetricsNum(MetricGet(base, k)) ELSE NoNum
    IN [returned |-> TRUE,
        keys |-> keys,
        absolute |-> [k \in keys |->
                         IF c(k).def /\ b(k).def THEN Some(c(k).v - b(k).v)
                         ELSE NoNum],
        pct |-> [k \in keys |-> PctChange(c(k), b(k))],
        validation |-> Validate(cur, has_base)]

\* ---------------------------------------------------------------------
\* Falsifier engine and metric deltas: callers
\* ---------------------------------------------------------------------
\* changes a caller makes to the snapshot it starts from
MaxMetricEdits == 1

\* the values a caller puts under a metric key
MetricValues ==
    {Absent, MNone, MGarbage, MBool(TRUE), MNumStr(110)}
    \cup {MNum(x) : x \in {-100, 0, 19, 20, 59, 60, 70, 80, 90, 100, 105, 110, 120}}

\* the values a caller puts under a key of the baseline
BaselineValues ==
    {Absent, MNone, MGarbage, MBool(TRUE)} \cup {MNum(x) : x \in {-100, 0, 80, 100}}

FromRecord(r) == [k \in MetricKeys |-> IF k \in DOMAIN r THEN MNum(r[k]) ELSE Absent]

\* MetricsSnapshot(current={})
EmptySnapshot == Snapshot(NoMetrics, FALSE, NoMetrics)

\* the snapshot of test_falsifier_latency_down_errors_up_triggers
TestTriggers ==
    Snapshot(FromRecord([service_latency_median |-> 800, error_rate |-> 12,
                         throughput |-> 10000, disparity_index |-> 100,
                         transparency_coverage |-> 70, citizen_burden_index |-> 100]),
             TRUE,
             FromRecord([service_latency_median |-> 1000, error_rate |-> 10,
                         throughput |-> 10000, disparity_index |-> 100,
                         transparency_coverage |-> 70, citizen_burden_index |-> 100]))

\* the snapshot of test_falsifier_no_high_hits_ok
TestBorderline ==
    Snapshot(FromRecord([service_latency_median |-> 900, error_rate |-> 10,
                         throughput |-> 10500, disparity_index |-> 100,
                         transparency_coverage |-> 70, citizen_burden_index |-> 100]),
             TRUE,
             FromRecord([service_latency_median |-> 1000, error_rate |-> 10,
                         throughput |-> 10000, disparity_index |-> 100,
                         transparency_coverage |-> 70, citizen_burden_index |-> 100]))

\* a snapshot with every baseline at 1.0, every change on its default
\* threshold and the transparency coverage just below its minimum
OnThresholds ==
    Snapshot(FromRecord([service_latency_median |-> 90, error_rate |-> 110,
                         throughput |-> 110, disparity_index |-> 105,
                         transparency_coverage |-> 59, shadow_paperwork_index |-> 110,
                         citizen_burden_index |-> 105]),
             TRUE,
             [k \in MetricKeys |-> MNum(100)])

StartSnapshots == {EmptySnapshot, TestTriggers, TestBorderline, OnThresholds}

\* no run of the orchestrator was asked for
NoRun ==
    [pc |-> "none", task |-> "", present |-> {}, has_metrics |-> FALSE,
     audit_overall |-> "", falsifier_verdict |-> "", final_status |-> ""]

InitRunIdle == run = NoRun

InitFalsifierIdle ==
    /\ snap = EmptySnapshot
    /\ engine = FalsifierEngineInit(<<>>, TRUE)
    /\ medits = 0
    /\ falsifier = NoFalsifierResult
    /\ deltas = NoDeltas

\* ---------------------------------------------------------------------
\* Audit gate: callers
\* ---------------------------------------------------------------------
\* edits a caller makes to the bundle it starts from before evaluating it
MaxEdits == 1

InitAuditIdle ==
    /\ artifacts = EmptyBundle
    /\ edits = 0
    /\ audit = NoAudit

\* the caller puts value v under key k of a document (or of the bundle) and
\* has the bundle evaluated
SetField ==
    /\ edits < MaxEdits
    /\ \E k \in AllKeys :
      \E v \in ValuesOf(k) :
        /\ artifacts.fields[k] # v
        /\ artifacts' =
               IF k[1] = "TOP" THEN [artifacts EXCEPT !.fields[k] = v]
               ELSE [artifacts EXCEPT !.docs[k[1]] = "dict", !.fields[k] = v]
        /\ edits' = edits + 1
        /\ audit' = AuditEvaluate(artifacts')
        /\ UNCHANGED <<logvars, falvars, run>>

\* the caller drops a document, or replaces it by a value that is not a
\* mapping, and has the bundle evaluated
SetDoc ==
    /\ edits < MaxEdits
    /\ \E d \in Docs, kind \in {"absent", "bad"} :
        /\ artifacts.docs[d] # kind
        /\ artifacts' =
               [docs |-> [artifacts.docs EXCEPT ![d] = kind],
                fields |-> [j \in AllKeys |->
                               IF j[1] = d THEN None ELSE artifacts.fields[j]]]
        /\ edits' = edits + 1
        /\ audit' = AuditEvaluate(artifacts')
        /\ UNCHANGED <<logvars, falvars, run>>

\* AuditGate().evaluate(AuditContext(artifacts)) on the bundle as it is
Evaluate ==
    /\ audit = NoAudit
    /\ audit' = AuditEvaluate(artifacts)
    /\ UNCHANGED <<artifacts, edits>>
    /\ UNCHANGED <<logvars, falvars, run>>

InitAudit ==
    /\ exists = FALSE
    /\ file = <<>>
    /\ mem = [i \in Inst |-> NoMem]
    /\ last = NoLast
    /\ report = NoReport
    /\ tampered = "none"
    /\ artifacts \in {EmptyBundle, PassingBundle}
    /\ edits = 0
    /\ audit = NoAudit
    /\ InitFalsifierIdle
    /\ InitRunIdle

NextAudit == SetField \/ SetDoc \/ Evaluate

SpecAudit == InitAudit /\ [][NextAudit]_vars

\* the caller changes the value under a key of current or baseline, has the
\* snapshot evaluated and its deltas computed
SetMetric ==
    /\ medits < MaxMetricEdits
    /\ snap.shape = "mappings"
    /\ \E side \in {"current", "baseline"}, k \in MetricKeys :
      \E v \in IF side = "current" THEN MetricValues ELSE BaselineValues :
        /\ IF side = "current" THEN snap.current[k] # v
           ELSE ~snap.baseline.given \/ snap.baseline.m[k] # v
        /\ snap' =
               IF side = "current"
               THEN [snap EXCEPT !.current[k] = v]
               ELSE [snap EXCEPT !.baseline = [given |-> TRUE,
                                               m |-> [snap.baseline.m EXCEPT ![k] = v]]]
        /\ medits' = medits + 1
        /\ falsifier' = FalsifierEvaluate(snap', engine)
        /\ deltas' = ComputeDeltas(snap')
        /\ UNCHANGED engine
        /\ UNCHANGED <<logvars, auditvars, run>>

\* the caller passes no baseline (None), or an empty one ({})
SetBaseline ==
    /\ medits < MaxMetricEdits
    /\ snap.shape = "mappings"
    /\ \E given \in BOOLEAN :
        /\ snap.baseline # [given |-> given, m |-> NoMetrics]
        /\ snap' = [snap EXCEPT !.baseline = [given |-> given, m |-> NoMetrics]]
        /\ medits' = medits + 1
        /\ falsifier' = FalsifierEvaluate(snap', engine)
        /\ deltas' = ComputeDeltas(snap')
        /\ UNCHANGED engine
        /\ UNCHANGED <<logvars, auditvars, run>>

\* the caller passes a current, or a baseline, that is a non-empty list
SetShape ==
    /\ medits < MaxMetricEdits
    /\ snap.shape = "mappings"
    /\ \E shape \in {"bad_current", "bad_baseline"} :
        /\ snap' = [snap EXCEPT !.shape = shape]
        /\ medits' = medits + 1
        /\ falsifier' = FalsifierEvaluate(snap', engine)
        /\ deltas' = ComputeDeltas(snap')
        /\ UNCHANGED engine
        /\ UNCHANGED <<logvars, auditvars, run>>

\* engine.evaluate(snap) on the snapshot as it is
EvaluateSnapshot ==
    /\ falsifier = NoFalsifierResult
    /\ falsifier' = FalsifierEvaluate(snap, engine)
    /\ UNCHANGED <<snap, engine, medits, deltas>>
    /\ UNCHANGED <<logvars, auditvars, run>>

\* Metrics().compute_deltas(current, baseline) on the snapshot as it is
ComputeDeltasOfSnapshot ==
    /\ deltas = NoDeltas
    /\ deltas' = ComputeDeltas(snap)
    /\ UNCHANGED <<snap, engine, medits, falsifier>>
    /\ UNCHANGED <<logvars, auditvars, run>>

InitFalsifier ==
    /\ exists = FALSE
    /\ file = <<>>
    /\ mem = [i \in Inst |-> NoMem]
    /\ last = NoLast
    /\ report = NoReport
    /\ tampered = "none"
    /\ InitAuditIdle
    /\ snap \in StartSnapshots
    /\ \E i \in 1..Len(ThresholdOverrides), require_baseline \in BOOLEAN :
           engine = FalsifierEngineInit(ThresholdOverrides[i], require_baseline)
    /\ medits = 0
    /\ falsifier = NoFalsifierResult
    /\ deltas = NoDeltas
    /\ InitRunIdle

NextFalsifier ==
    \/ SetMetric
    \/ SetBaseline
    \/ SetShape
    \/ EvaluateSnapshot
    \/ ComputeDeltasOfSnapshot

SpecFalsifier == InitFalsifier /\ [][NextFalsifier]_vars

\* ---------------------------------------------------------------------
\* Orchestrator: CivicOSOrchestrator.run
\* ---------------------------------------------------------------------
\* a list of n non-empty strings
ListOf(n) == List([i \in 1..n |-> Str("x")])

\* _ensure_minimum_artifacts: the documents it writes, restricted to the keys
\* the gates read; Goal is the task of the run
DefaultFields(task) ==
    (<<"IC", "Goal">> :> Str(task)) @@ (<<"IC", "Deliverable">> :> Str("x"))
    @@ (<<"IC", "Success metrics">> :> ListOf(6))
    @@ (<<"IC", "Citizen summary">> :> Str("x"))
    @@ (<<"ES", "Facts">> :> ListOf(1))
    @@ (<<"ES", "Assumptions">> :> ListOf(1))
    @@ (<<"ES", "Sources">> :> ListOf(0))
    @@ (<<"FPF", "Variables">> :> ListOf(4))
    @@ (<<"FPF", "Levers">> :> ListOf(4))
    @@ (<<"FPF", "Falsifiers">> :> ListOf(3))
    @@ (<<"FPF", "Minimal tests">> :> ListOf(3))
    @@ (<<"WM", "Causal structure">> :> Str("x"))
    @@ (<<"WM", "Loops">> :> ListOf(1))
    @@ (<<"WM", "Delays">> :> ListOf(1))
    @@ (<<"WM", "Bottlenecks">> :> ListOf(1))
    @@ (<<"SM", "Actors & incentives">> :> ListOf(3))
    @@ (<<"SM", "Hidden costs/externalities">> :> ListOf(2))
    @@ (<<"SM", "Corruption surfaces">> :> ListOf(1))
    @@ (<<"DS", "Option A">> :> Dict(4)) @@ (<<"DS", "Option B">> :> Dict(4))
    @@ (<<"DS", "Option C">> :> Dict(4))
    @@ (<<"DS", "Global downside bound">> :> Str("x"))
    @@ (<<"DS", "Rollback plan">> :> Str("x"))
    @@ (<<"DS", "Kill-switch">> :> Str("x"))
    @@ (<<"AP", "Stages">> :> ListOf(3))
    @@ (<<"AP", "Instrumentation">> :> Str("x"))
    @@ (<<"AP", "Metrics & thresholds">> :> Dict(3))
    @@ (<<"AP", "Rollback">> :> Str("x")) @@ (<<"AP", "Kill-switch">> :> Str("x"))
    @@ (<<"AP", "Execution checklist">> :> ListOf(3))
    @@ (<<"AP", "Citizen summary">> :> Str("x"))

\* _ensure_minimum_artifacts: a document is written only when its key is not
\* in the bundle; present is the set of keys the caller's bundle has
EnsureMinimumArtifacts(task, a, present) ==
    [docs |-> [d \in Docs |-> IF d \in present THEN a.docs[d] ELSE "dict"],
     fields |-> [k \in AllKeys |->
                    IF k[1] = "TOP" \/ k[1] \in present THEN a.fields[k]
                    ELSE IF k \in DOMAIN DefaultFields(task)
                         THEN DefaultFields(task)[k]
                         ELSE None]]

FinalStatusFalsifierFirst(audit_overall, falsifier_verdict) ==
    IF falsifier_verdict = "FALSIFIED" THEN "FALSIFIED_IN_MONITORING"
    ELSE IF audit_overall = "FAIL" THEN "BLOCKED_BY_AUDIT"
    ELSE "PASS"

\* run, lines 130-136
FinalStatus(audit_overall, falsifier_verdict) ==
    IF audit_overall = "FAIL" THEN "BLOCKED_BY_AUDIT"
    ELSE IF falsifier_verdict = "FALSIFIED" THEN "FALSIFIED_IN_MONITORING"
    ELSE "PASS"

\* SignedEntry(run_id=run_id, seq=0, event=..., payload=...): the payload is
\* abstracted to the verdict it carries
RunEntry(event, payload) ==
    [run_id |-> "r1", seq |-> 0, event |-> event, payload |-> payload,
     timestamp_utc |-> "t", prev_hash |-> NoHash, hash |-> NoHash,
     signature |-> NoHash]

\* mem.append(entry) by the run, whose SignedMemory object is m
RunAppend(m, entry) ==
    LET sealed == SealEntry(m, entry) IN
        /\ file' = AppendFile(file, JsonLine(CanonicalJson(ToDict(sealed))))
        /\ exists' = TRUE
        /\ mem' = [mem EXCEPT ![1] = [m EXCEPT !.prev_hash = sealed.hash,
                                               !.seq = @ + 1,
                                               !.wrote = @ + 1]]
        /\ last' = [op |-> "append", who |-> 1, seq_in |-> entry.seq,
                    prev_in |-> entry.prev_hash]
        /\ report' = NoReport
        /\ UNCHANGED tampered

\* run raises: nothing more is written and no RunResult is returned
RunRaises ==
    /\ run' = [run EXCEPT !.pc = "raised"]
    /\ UNCHANGED logvars

\* run, lines 68-93: a SignedMemory on the new run directory, the minimum
\* artifacts, RUN_START
RunStart ==
    /\ run.pc = "called"
    /\ \E s \in Secrets :
        RunAppend(LoadTail(exists, file,
                           [alive |-> TRUE, seq |-> 0, prev_hash |-> NoHash,
                            secret |-> s, loaded |-> Len(file),
                            tail |-> TailKind(exists, file), wrote |-> 0]),
                  RunEntry("RUN_START", "start"))
    /\ artifacts' = EnsureMinimumArtifacts(run.task, artifacts, run.present)
    /\ run' = [run EXCEPT !.pc = "started"]
    /\ UNCHANGED <<edits, audit>>
    /\ UNCHANGED falvars

\* run, lines 95-106: the audit gate, AUDIT_REPORT
RunAudit ==
    /\ run.pc = "started"
    /\ audit' = AuditEvaluate(artifacts)
    /\ IF audit'.raised THEN RunRaises
       ELSE /\ RunAppend(mem[1], RunEntry("AUDIT_REPORT", audit'.overall_verdict))
            /\ run' = [run EXCEPT !.pc = "audited",
                                  !.audit_overall = audit'.overall_verdict,
                                  !.falsifier_verdict = "OK"]
    /\ UNCHANGED <<artifacts, edits>>
    /\ UNCHANGED falvars

\* run, lines 108-128: the falsifier engine and FALSIFIER_RESULT, when
\* metrics_current is not None
RunFalsifier ==
    /\ run.pc = "audited"
    /\ run.has_metrics
    /\ falsifier' = FalsifierEvaluate(snap, engine)
    /\ IF falsifier'.raised THEN RunRaises
       ELSE /\ RunAppend(mem[1], RunEntry("FALSIFIER_RESULT", falsifier'.verdict))
            /\ run' = [run EXCEPT !.pc = "monitored",
                                  !.falsifier_verdict = falsifier'.verdict]
    /\ UNCHANGED <<snap, engine, medits, deltas>>
    /\ UNCHANGED auditvars

\* run, lines 130-166: the final status, RUN_END, the RunResult
RunEnd ==
    /\ \/ run.pc = "audited" /\ ~run.has_metrics
       \/ run.pc = "monitored"
    /\ LET final_status == FinalStatus(run.audit_overall, run.falsifier_verdict) IN
        /\ RunAppend(mem[1], RunEntry("RUN_END", final_status))
        /\ run' = [run EXCEPT !.pc = "returned", !.final_status = final_status]
    /\ UNCHANGED <<auditvars, falvars>>

\* RunInput.artifacts: nothing, one document given as None or {} or as a value
\* that is not a mapping, or the documented bundle
RunArtifacts ==
    {[bundle |-> EmptyBundle, present |-> {}],
     [bundle |-> PassingBundle, present |-> Docs]}
    \cup {[bundle |-> [EmptyBundle EXCEPT !.docs[d] = kind], present |-> {d}] :
             d \in Docs, kind \in {"absent", "bad"}}

\* RunInput.metrics_current and metrics_baseline: has is FALSE for
\* metrics_current None
RunMetrics ==
    {[has |-> FALSE, snap |-> EmptySnapshot]}
    \cup {[has |-> TRUE, snap |-> m] : m \in StartSnapshots}
    \cup {[has |-> TRUE, snap |-> [EmptySnapshot EXCEPT !.shape = shape]] :
             shape \in {"bad_current", "bad_baseline"}}

\* RunInput.task
Tasks == {"", "x"}

\* CivicOSOrchestrator(require_baseline_for_falsifiers=...).run(inp) on a run
\* directory of its own
InitRun ==
    /\ exists = FALSE
    /\ file = <<>>
    /\ mem = [i \in Inst |-> NoMem]
    /\ last = NoLast
    /\ report = NoReport
    /\ tampered = "none"
    /\ edits = 0
    /\ audit = NoAudit
    /\ medits = 0
    /\ falsifier = NoFalsifierResult
    /\ deltas = NoDeltas
    /\ \E require_baseline \in BOOLEAN :
           engine = FalsifierEngineInit(<<>>, require_baseline)
    /\ \E a \in RunArtifacts, m \in RunMetrics, task \in Tasks :
        /\ artifacts = a.bundle
        /\ snap = m.snap
        /\ run = [NoRun EXCEPT !.pc = "called", !.task = task,
                               !.present = a.present, !.has_metrics = m.has]

NextRun == RunStart \/ RunAudit \/ RunFalsifier \/ RunEnd

SpecRun == InitRun /\ [][NextRun]_vars

\* ---------------------------------------------------------------------
\* Specifications of the log
\* ---------------------------------------------------------------------
InitLog ==
    /\ exists = FALSE
    /\ file = <<>>
    /\ mem = [i \in Inst |-> NoMem]
    /\ last = NoLast
    /\ report = NoReport
    /\ tampered = "none"
    /\ InitAuditIdle
    /\ InitFalsifierIdle
    /\ InitRunIdle

\* one SignedMemory object, constructed once on an absent log
ConstructOnce == \E s \in Secrets : ~mem[1].alive /\ Construct(1, s)

AppendOne == \E e \in CallerEntries : AppendEntry(1, e)

VerifyOne == VerifyChain(1)

NextSingle == ConstructOnce \/ AppendOne \/ VerifyOne

SpecSingle == InitLog /\ [][NextSingle]_vars

\* any number of SignedMemory objects on the same file; constructing object i
\* again is a restart of writer i
ConstructAny == \E i \in Inst, s \in Secrets : Construct(i, s)

\* every writer appends the same kind of entry: the objects differ in what they
\* loaded, not in what they are given
AppendAny ==
    \E i \in Inst, e \in {x \in FewEntries : x.payload = "pb"} : AppendEntry(i, e)

VerifyAny == \E i \in Inst : VerifyChain(i)

NextLog == ConstructAny \/ AppendAny \/ VerifyAny

SpecLog == InitLog /\ [][NextLog]_vars

\* one writer (with restarts) and one external edit of the file
ConstructOne == \E s \in Secrets : Construct(1, s)

AppendFew == \E e \in FewEntries : AppendEntry(1, e)

NextTamper ==
    \/ ConstructOne
    \/ AppendFew
    \/ VerifyOne
    \/ TamperPayload
    \/ RemoveEntry
    \/ InsertCopy
    \/ SwapEntries
    \/ CorruptTail

SpecTamper == InitLog /\ [][NextTamper]_vars

\* ---------------------------------------------------------------------
\* Properties of the log
\* ---------------------------------------------------------------------
\* entry k (from 1) of file f has seq k-1 and the hash of entry k-1 as prev_hash
ChainInvariant(f) ==
    \A k \in 1..Len(f) :
        /\ f[k].kind = "json"
        /\ JsonLoads(f[k].text).seq = k - 1
        /\ JsonLoads(f[k].text).prev_hash =
               IF k = 1 THEN NoHash ELSE JsonLoads(f[k - 1].text).hash

SingleWriter == \E i \in Inst : \A j \in Inst \ {i} : ~mem[j].alive

\* C1: after N appends by one object on an initially absent log, verify_chain
\* returns ok = true, bad = 0 and checked = N (ok = true, checked = 0 without a file)
C1_RoundTrip ==
    last.op = "verify_chain" =>
        /\ ~report.raised
        /\ report.ok
        /\ report.bad = 0
        /\ report.checked = Len(file)

\* C2: with one object and no restart, the i-th persisted entry has seq i and
\* the hash of its predecessor ("" for the first) as prev_hash, whatever seq
\* and prev_hash the caller passed
C2_ChainSingleWriter ==
    /\ ChainInvariant(file)
    /\ mem[1].alive => mem[1].seq = Len(file)

C2_Witness ==
    /\ Len(file) >= 2
    /\ last.op = "append"
    /\ last.seq_in = 5
    /\ last.prev_in = JunkHash

\* C3: after the payload of one persisted entry was changed, verify_chain
\* returns bad > 0 and ok = false
C3_TamperDetected ==
    (tampered = "payload" /\ last.op = "verify_chain") =>
        /\ ~report.raised
        /\ report.bad > 0
        /\ ~report.ok

C3_Witness ==
    /\ tampered = "payload"
    /\ last.op = "verify_chain"
    /\ mem[1].secret = ""
    /\ report.checked >= 1

\* C4: an object constructed on a log whose last line is a well-formed entry e
\* continues with seq e.seq + 1 and prev_hash e.hash, so with a single writer
\* the chain invariant holds across appends and restarts
C4_ResumeAfterRestart ==
    /\ (last.op = "construct" /\ Len(file) >= 1) =>
           /\ mem[last.who].seq = Obj(Len(file)).seq + 1
           /\ mem[last.who].prev_hash = Obj(Len(file)).hash
    /\ SingleWriter => ChainInvariant(file)

C4_Witness ==
    /\ SingleWriter
    /\ last.op = "append"
    /\ mem[last.who].loaded >= 1
    /\ mem[last.who].wrote >= 1

BothLoadedThenAppended(i, j) ==
    /\ i # j
    /\ mem[i].alive /\ mem[j].alive
    /\ mem[i].loaded = mem[j].loaded
    /\ mem[i].wrote = 1 /\ mem[j].wrote = 1

C6_MultiWriterHazard ==
    \A i \in Inst, j \in Inst :
        BothLoadedThenAppended(i, j) =>
            LET n == Len(file) IN
            /\ n = mem[i].loaded + 2
            /\ Obj(n).seq = Obj(n - 1).seq
            /\ Obj(n).prev_hash = Obj(n - 1).prev_hash
            /\ Obj(n).prev_hash # Obj(n - 1).hash
            /\ last.op = "verify_chain" =>
                   /\ ~report.ok
                   /\ \E x \in 1..Len(report.notes) :
                          report.notes[x] = <<"Chain mismatch", Obj(n).seq>>

C6_Witness ==
    /\ BothLoadedThenAppended(1, 2)
    /\ last.op = "verify_chain"

\* C7: the file only grows: append adds one line after the existing ones,
\* verify_chain and construction leave the file alone, and verify_chain leaves
\* the in-memory seq / prev_hash alone
C7_AppendOnly ==
    [][/\ Len(file') >= Len(file)
       /\ SubSeq(file', 1, Len(file)) = file
       /\ (exists => exists')
       /\ (last'.op = "append" => Len(file') = Len(file) + 1)
       /\ (last'.op \in {"construct", "verify_chain"} =>
               file' = file /\ exists' = exists)
       /\ (last'.op = "verify_chain" => mem' = mem)]_vars

C7_Witness ==
    /\ Len(file) >= 2
    /\ last.op = "verify_chain"
    /\ \E i \in Inst : mem[i].alive /\ mem[i].loaded >= 1

\* C8: after one entry of a log of N >= 2 entries was removed, copied or
\* swapped with another, verify_chain returns ok = false
C8_StructuralEditDetected ==
    (tampered \in {"remove", "insert", "swap"} /\ last.op = "verify_chain") =>
        /\ ~report.raised
        /\ ~report.ok

C8_Witness ==
    /\ tampered = "remove"
    /\ last.op = "verify_chain"
    /\ mem[1].secret = ""
    /\ report.checked >= 1

\* ---------------------------------------------------------------------
\* Properties of the audit gate
\* ---------------------------------------------------------------------
\* a value that counts as missing: None, an empty or whitespace-only string,
\* an empty list or an empty mapping
FieldAbsent(v) ==
    \/ v.t = "none"
    \/ v.t = "str" /\ v.s \in {"", " "}
    \/ v.t = "list" /\ v.items = <<>>
    \/ v.t = "dict" /\ v.n = 0

\* the required fields of the five gates, each with the keys it is read from
RequiredFields ==
    { {<<"ES", "Facts">>, <<"ES", "facts">>},
      {<<"ES", "Assumptions">>, <<"ES", "assumptions">>},
      {<<"FPF", "Falsifiers">>, <<"FPF", "falsifiers">>},
      {<<"WM", "Causal structure">>, <<"WM", "causal_structure">>,
       <<"WM", "CausalStructure">>},
      {<<"FPF", "Variables">>, <<"FPF", "variables">>},
      {<<"FPF", "Levers">>, <<"FPF", "levers">>},
      {<<"DS", "Global downside bound">>, <<"DS", "GlobalDownsideBound">>,
       <<"DS", "DownsideBound">>},
      {<<"DS", "Rollback plan">>, <<"DS", "Rollback">>, <<"AP", "Rollback">>,
       <<"AP", "rollback">>},
      {<<"DS", "Kill-switch">>, <<"DS", "KillSwitch">>, <<"AP", "Kill-switch">>,
       <<"AP", "KillSwitch">>},
      {<<"SM", "Actors & incentives">>, <<"SM", "Actors">>, <<"SM", "actors">>,
       <<"SM", "Incentives">>, <<"SM", "incentives">>},
      {<<"SM", "Corruption surfaces">>, <<"SM", "corruption_surfaces">>},
      {<<"SM", "Hidden costs/externalities">>, <<"SM", "hidden_costs">>},
      {<<"IC", "Goal">>, <<"IC", "goal">>},
      {<<"IC", "Deliverable">>, <<"IC", "deliverable">>},
      {<<"IC", "Success metrics">>, <<"IC", "success_metrics">>} }

\* the field is missing under all its aliases
FieldMissing(a, g) == \A k \in g : FieldAbsent(Get(a, k[1], k[2]))

SomePresent(a, g) == ~FieldMissing(a, g)

\* the items of a field: of the list it holds, or the value itself
ItemsOf(v) == IF v.t = "none" THEN <<>> ELSE IF v.t = "list" THEN v.items ELSE <<v>>

HardTruth(a) ==
    \E k \in {<<"ES", "Facts">>, <<"ES", "facts">>, <<"ES", "Sources">>,
              <<"ES", "sources">>} :
        \E i \in 1..Len(ItemsOf(Get(a, k[1], k[2]))) :
            LET x == ItemsOf(Get(a, k[1], k[2]))[i]
            IN (x.t = "str" /\ x.s = "x") \/ x.t = "dict"

HardLogic(a) ==
    \/ Cardinality({ g \in { {<<"DS", "Option A">>, <<"DS", "OptionA">>},
                             {<<"DS", "Option B">>, <<"DS", "OptionB">>},
                             {<<"DS", "Option C">>, <<"DS", "OptionC">>} } :
                       SomePresent(a, g) }) >= 2
    \/ Get(a, "DS", "options").t = "list" /\ Len(Get(a, "DS", "options").items) >= 2

HardRisk(a) ==
    SomePresent(a, {<<"AP", "Stages">>, <<"AP", "stages">>, <<"AP", "Steps">>,
                    <<"AP", "steps">>})

HardClarity(a) ==
    \E k \in {<<"TOP", "CitizenSummary">>, <<"IC", "Citizen summary">>,
              <<"IC", "citizen_summary">>, <<"AP", "Citizen summary">>,
              <<"AP", "citizen_summary">>} :
        Get(a, k[1], k[2]).t = "str" /\ Get(a, k[1], k[2]).s = "x"

\* C9: a bundle in which a required field of a gate is missing (under all
\* its aliases) gets overall_verdict FAIL
C9_MissingFieldFails ==
    (audit.returned /\ \E g \in RequiredFields : FieldMissing(artifacts, g)) =>
        audit.overall_verdict = "FAIL"

\* C10: a bundle in which every required field is present and every gate's
\* hard condition holds gets overall_verdict PASS
C10_CompleteBundlePasses ==
    ( /\ audit.returned
      /\ \A g \in RequiredFields : SomePresent(artifacts, g)
      /\ HardTruth(artifacts)
      /\ HardLogic(artifacts)
      /\ HardRisk(artifacts)
      /\ HardClarity(artifacts) ) =>
        audit.overall_verdict = "PASS"

\* the strings of a sequence
Range(seq) == {seq[i] : i \in 1..Len(seq)}

\* C11: evaluate returns a report and never raises, whatever the types of
\* the documents and fields of the bundle
C11_NeverRaises == ~audit.raised

\* C12: the first fix of every failed gate is in minimum_fixes, and
\* minimum_fixes holds at most one fix of each failed gate
C12_FirstFixOfEachFailedGate ==
    audit.returned =>
        \A i \in 1..Len(audit.gate_results) :
            LET gr == audit.gate_results[i]
            IN gr.verdict = "FAIL" =>
                   /\ gr.fixes # <<>>
                   /\ gr.fixes[1] \in Range(audit.minimum_fixes)
                   /\ Cardinality(Range(audit.minimum_fixes) \cap Range(gr.fixes)) <= 1

\* C13: minimum_fixes has at most 8 entries and no entry twice
C13_FixesBoundedAndDistinct ==
    audit.returned =>
        /\ Len(audit.minimum_fixes) <= 8
        /\ \A i, j \in 1..Len(audit.minimum_fixes) :
               audit.minimum_fixes[i] = audit.minimum_fixes[j] => i = j

\* a report whose failed gates carry more fixes than minimum_fixes may hold
C13_Witness ==
    /\ audit.returned
    /\ Len(FailedFixes(audit.gate_results)) > 8
    /\ Len(audit.minimum_fixes) = 8

\* C14: for the empty bundle, evaluate returns the five gate results in the
\* order Truth, Logic, Risk, Bias, Clarity, each FAIL, overall_verdict FAIL
\* and a non-empty minimum_fixes
C14_EmptyBundleFails ==
    (audit.returned /\ artifacts = EmptyBundle) =>
        /\ [i \in 1..Len(audit.gate_results) |-> audit.gate_results[i].gate]
               = <<"Truth Gate", "Logic Gate", "Risk Gate", "Bias Gate", "Clarity Gate">>
        /\ \A i \in 1..Len(audit.gate_results) : audit.gate_results[i].verdict = "FAIL"
        /\ audit.overall_verdict = "FAIL"
        /\ audit.minimum_fixes # <<>>

C14_Witness == audit.returned /\ artifacts = EmptyBundle

\* ---------------------------------------------------------------------
\* Properties of the falsifier engine and of the metric deltas
\* ---------------------------------------------------------------------
HasHit(code, severity) ==
    \E i \in 1..Len(falsifier.hits) :
        falsifier.hits[i].code = code /\ falsifier.hits[i].severity = severity

HasCode(code) == \E i \in 1..Len(falsifier.hits) : falsifier.hits[i].code = code

HighCount == Cardinality({i \in 1..Len(falsifier.hits) : falsifier.hits[i].severity = "HIGH"})

\* C15: the verdict is FALSIFIED exactly when some hit has severity HIGH;
\* hits of severity MEDIUM alone give OK; the summary reports the number
\* of HIGH hits
C15_VerdictIffHighHit ==
    falsifier.returned =>
        /\ falsifier.verdict \in {"OK", "FALSIFIED"}
        /\ falsifier.verdict = "FALSIFIED" <=> HighCount >= 1
        /\ falsifier.summary =
               IF HighCount >= 1 THEN <<"FALSIFIED", HighCount>> ELSE <<"OK">>

\* a result with MEDIUM hits only
C15_Witness ==
    /\ falsifier.returned
    /\ HasHit("baseline_missing", "MEDIUM")
    /\ HasHit("transparency_claims_unverifiable_logs", "MEDIUM")
    /\ HighCount = 0
    /\ falsifier.verdict = "OK"

\* a metric value that is a number: a number or a string that parses as one
Numeric(x) == x.k \in {"num", "numstr"}

\* the current and the baseline value under a key, the latter absent when
\* there is no baseline
CurOf(k) == snap.current[k]

BaseOf(k) == IF snap.baseline.given THEN snap.baseline.m[k] ELSE Absent

\* what the claim says of the percentage change r of the values c and b
PctAsClaimed(r, c, b) ==
    IF ~Numeric(c) \/ ~Numeric(b) \/ b.v = 0 THEN ~r.def
    ELSE /\ r.def
         /\ r.den > 0
         /\ r.num * Abs(b.v) = (c.v - b.v) * r.den

\* the percentage change evaluate computes for a key, a local variable of it
ChangeOf(k) ==
    CASE k = "service_latency_median" -> falsifier.locals.latency_change
      [] k = "error_rate" -> falsifier.locals.error_change
      [] k = "throughput" -> falsifier.locals.throughput_change
      [] k = "disparity_index" -> falsifier.locals.disparity_change
      [] k = "transparency_coverage" -> falsifier.locals.trans_change
      [] k = "shadow_paperwork_index" -> falsifier.locals.shadow_change
      [] OTHER -> falsifier.locals.burden_change

\* C16: in the falsifier engine and in the metric deltas, the percentage
\* change of (c, b) is None when b is 0 or c or b is missing or not
\* numeric, and (c - b) / |b| otherwise
C16_PctChange ==
    /\ falsifier.returned =>
           \A k \in MetricKeys : PctAsClaimed(ChangeOf(k), CurOf(k), BaseOf(k))
    /\ deltas.returned =>
           \A k \in deltas.keys : PctAsClaimed(deltas.pct[k], CurOf(k), BaseOf(k))

\* the number the engine reads under a key of current and of the baseline
CurNum(k) == FalsifierNum(CurOf(k))

BaseNum(k) == FalsifierNum(BaseOf(k))

\* the percentage change of a key is defined, is at most t, is at least t
\* (t in hundredths)
ChangeDefined(k) == CurNum(k).def /\ BaseNum(k).def /\ BaseNum(k).v # 0

ChangeAtMost(k, t) ==
    ChangeDefined(k) /\ (CurNum(k).v - BaseNum(k).v) * 100 <= t * Abs(BaseNum(k).v)

ChangeAtLeast(k, t) ==
    ChangeDefined(k) /\ (CurNum(k).v - BaseNum(k).v) * 100 >= t * Abs(BaseNum(k).v)

ChangeEquals(k, t) ==
    ChangeDefined(k) /\ (CurNum(k).v - BaseNum(k).v) * 100 = t * Abs(BaseNum(k).v)

C18_ErrorRateExtreme ==
    falsifier.returned =>
        /\ HasCode("error_rate_extreme") <=>
               (CurNum("error_rate").def /\ CurNum("error_rate").v >= 20)
        /\ HasCode("error_rate_extreme") =>
               /\ HasHit("error_rate_extreme", "HIGH")
               /\ falsifier.verdict = "FALSIFIED"

\* an error rate of exactly 0.20, no baseline, require_baseline false
C18_Witness ==
    /\ falsifier.returned
    /\ ~snap.baseline.given
    /\ ~engine.require_baseline
    /\ CurNum("error_rate") = Some(20)
    /\ falsifier.verdict = "FALSIFIED"

\* no baseline snapshot was supplied: None, or a mapping without keys
NoBaseline == ~snap.baseline.given \/ snap.baseline.m = NoMetrics

\* C19: baseline_missing is in the result exactly when require_baseline is
\* true and no baseline was supplied; it is MEDIUM and the first hit, and
\* alone it leaves the verdict OK
C19_BaselineMissing ==
    falsifier.returned =>
        /\ HasCode("baseline_missing") <=> (engine.require_baseline /\ NoBaseline)
        /\ HasCode("baseline_missing") =>
               /\ falsifier.hits[1].code = "baseline_missing"
               /\ falsifier.hits[1].severity = "MEDIUM"
               /\ \A i \in 2..Len(falsifier.hits) :
                      falsifier.hits[i].code # "baseline_missing"
               /\ Len(falsifier.hits) = 1 => falsifier.verdict = "OK"

\* baseline_missing is the only hit
C19_Witness ==
    /\ falsifier.returned
    /\ Len(falsifier.hits) = 1
    /\ HasCode("baseline_missing")
    /\ falsifier.verdict = "OK"

\* C20: the MEDIUM hit transparency_claims_unverifiable_logs is in the
\* result exactly when the current transparency_coverage is defined and
\* strictly below transparency_min; the baseline has no part in it, so two
\* snapshots that agree on the two have the hit both or neither
C20_TransparencyAbsolute ==
    falsifier.returned =>
        /\ HasCode("transparency_claims_unverifiable_logs") <=>
               /\ CurNum("transparency_coverage").def
               /\ CurNum("transparency_coverage").v < engine.thresholds.transparency_min
        /\ HasCode("transparency_claims_unverifiable_logs") =>
               HasHit("transparency_claims_unverifiable_logs", "MEDIUM")

\* the hit in a result whose baseline has a transparency coverage, and a
\* different one
C20_Witness ==
    /\ falsifier.returned
    /\ HasCode("transparency_claims_unverifiable_logs")
    /\ BaseNum("transparency_coverage").def
    /\ BaseNum("transparency_coverage") # CurNum("transparency_coverage")

\* a value float() cannot use: the key is absent, None, or unparseable
Unusable(x) == x.k \in {"absent", "none", "str"}

\* the percentage change of a key has no value: current or baseline is
\* unusable, or the baseline is zero
ChangeUndefined(k) ==
    \/ Unusable(CurOf(k))
    \/ Unusable(BaseOf(k))
    \/ BaseOf(k).k \in {"num", "numstr"} /\ BaseOf(k).v = 0

Recommended(a) ==
    \E i \in 1..Len(falsifier.recommended_actions) : falsifier.recommended_actions[i] = a

\* a rule left no trace in the result: no hit of its code, none of its actions
Skipped(code, actions) ==
    /\ ~HasCode(code)
    /\ \A a \in actions : ~Recommended(a)

\* C21: evaluate does not raise when current and baseline are mappings,
\* whatever their values; a rule one of whose inputs is absent, None or
\* unparseable, or whose percentage change has a zero baseline, adds no hit
\* and no action
C21_MalformedValuesSkipRules ==
    /\ snap.shape = "mappings" => ~falsifier.raised
    /\ falsifier.returned =>
           /\ (ChangeUndefined("service_latency_median") \/ ChangeUndefined("error_rate"))
                  => Skipped("latency_down_errors_up", {"act_freeze", "act_validation"})
           /\ (ChangeUndefined("throughput") \/ ChangeUndefined("disparity_index"))
                  => Skipped("throughput_up_disparity_up", {"act_equity", "act_monitoring"})
           /\ ChangeUndefined("shadow_paperwork_index")
                  => Skipped("shadow_paperwork_grows", {"act_shadow_steps", "act_incentive"})
           /\ ChangeUndefined("citizen_burden_index")
                  => Skipped("citizen_burden_up_after_digital", {"act_journey", "act_policy"})
           /\ Unusable(CurOf("transparency_coverage"))
                  => Skipped("transparency_claims_unverifiable_logs", {"act_trace"})
           /\ Unusable(CurOf("error_rate"))
                  => Skipped("error_rate_extreme", {"act_no_scale"})

\* the latency change is on the firing side and the current error rate is a
\* number, but the baseline error rate is zero: the rule is skipped
C21_Witness ==
    /\ falsifier.returned
    /\ ChangeAtMost("service_latency_median", engine.thresholds.latency_improve)
    /\ CurNum("error_rate").def
    /\ CurNum("error_rate").v > 0
    /\ BaseOf("error_rate") = MNum(0)
    /\ Skipped("latency_down_errors_up", {"act_freeze", "act_validation"})

\* the actions of the rules that fired, rule by rule in the order of the hits
RECURSIVE ActionsOfHits(_)
ActionsOfHits(hits) ==
    IF hits = <<>> THEN <<>>
    ELSE ActionsOf(Head(hits).code) \o ActionsOfHits(Tail(hits))

\* sequence a is sequence b with some elements left out
RECURSIVE IsSubsequence(_, _)
IsSubsequence(a, b) ==
    IF a = <<>> THEN TRUE
    ELSE IF b = <<>> THEN FALSE
    ELSE IF Head(a) = Head(b) THEN IsSubsequence(Tail(a), Tail(b))
    ELSE IsSubsequence(a, Tail(b))

\* C22: recommended_actions has at most 10 entries, no entry twice, only
\* actions of rules that fired, in the order in which the rules fired
C22_ActionsBoundedOrdered ==
    falsifier.returned =>
        LET ra == falsifier.recommended_actions
        IN /\ Len(ra) <= 10
           /\ \A i, j \in 1..Len(ra) : i # j => ra[i] # ra[j]
           /\ \A i \in 1..Len(ra) :
                  \E h \in 1..Len(falsifier.hits) :
                      ra[i] \in Range(ActionsOf(falsifier.hits[h].code))
           /\ IsSubsequence(ra, ActionsOfHits(falsifier.hits))

\* three rules fired, one of them first in the code and one last, and some
\* rule between them did not
C22_Witness ==
    /\ falsifier.returned
    /\ Len(falsifier.hits) >= 3
    /\ HasCode("latency_down_errors_up")
    /\ HasCode("error_rate_extreme")
    /\ ~HasCode("shadow_paperwork_grows")
    /\ Len(falsifier.recommended_actions) >= 4

\* the rules that compare a percentage change with a threshold
PctRules ==
    {"latency_down_errors_up", "throughput_up_disparity_up", "shadow_paperwork_grows",
     "citizen_burden_up_after_digital"}

\* C25: the cap of 10 drops nothing: every action of every rule that fired
\* is in recommended_actions, baseline_missing never fires together with a
\* percentage-change rule, and no evaluation produces more than 10 actions
C25_CapDropsNothing ==
    falsifier.returned =>
        /\ \A h \in 1..Len(falsifier.hits) :
               \A a \in Range(ActionsOf(falsifier.hits[h].code)) : Recommended(a)
        /\ falsifier.recommended_actions = ActionsOfHits(falsifier.hits)
        /\ HasCode("baseline_missing") => \A c \in PctRules : ~HasCode(c)
        /\ Len(ActionsOfHits(falsifier.hits)) <= 10

\* the six rules other than baseline_missing all fired: ten actions
C25_Witness ==
    /\ falsifier.returned
    /\ Len(falsifier.hits) = 6
    /\ \A c \in PctRules : HasCode(c)
    /\ Len(falsifier.recommended_actions) = 10

\* C26: without a baseline (None, or a mapping without keys) the only hits
\* are baseline_missing, transparency_claims_unverifiable_logs and
\* error_rate_extreme, and the verdict is FALSIFIED exactly when the current
\* error_rate is defined and at least 0.20
C26_NoBaselineVerdict ==
    (falsifier.returned /\ NoBaseline) =>
        /\ \A i \in 1..Len(falsifier.hits) :
               falsifier.hits[i].code \in
                   {"baseline_missing", "transparency_claims_unverifiable_logs",
                    "error_rate_extreme"}
        /\ falsifier.verdict = "FALSIFIED" <=>
               (CurNum("error_rate").def /\ CurNum("error_rate").v >= 20)

\* no baseline, the three hits together, and current values from which the
\* percentage-change rules would fire against a baseline of 1.0
C26_Witness ==
    /\ falsifier.returned
    /\ NoBaseline
    /\ Len(falsifier.hits) = 3
    /\ falsifier.verdict = "FALSIFIED"
    /\ CurNum("shadow_paperwork_index") = Some(110)
    /\ CurNum("citizen_burden_index") = Some(105)

\* the required fields of each gate, in the order Truth, Logic, Risk, Bias,
\* Clarity, each field with the keys it is read from
GateFields ==
    << { {<<"ES", "Facts">>, <<"ES", "facts">>},
         {<<"ES", "Assumptions">>, <<"ES", "assumptions">>},
         {<<"FPF", "Falsifiers">>, <<"FPF", "falsifiers">>} },
       { {<<"WM", "Causal structure">>, <<"WM", "causal_structure">>,
          <<"WM", "CausalStructure">>},
         {<<"FPF", "Variables">>, <<"FPF", "variables">>},
         {<<"FPF", "Levers">>, <<"FPF", "levers">>} },
       { {<<"DS", "Global downside bound">>, <<"DS", "GlobalDownsideBound">>,
          <<"DS", "DownsideBound">>},
         {<<"DS", "Rollback plan">>, <<"DS", "Rollback">>, <<"AP", "Rollback">>,
          <<"AP", "rollback">>},
         {<<"DS", "Kill-switch">>, <<"DS", "KillSwitch">>, <<"AP", "Kill-switch">>,
          <<"AP", "KillSwitch">>} },
       { {<<"SM", "Actors & incentives">>, <<"SM", "Actors">>, <<"SM", "actors">>,
          <<"SM", "Incentives">>, <<"SM", "incentives">>},
         {<<"SM", "Corruption surfaces">>, <<"SM", "corruption_surfaces">>},
         {<<"SM", "Hidden costs/externalities">>, <<"SM", "hidden_costs">>} },
       { {<<"IC", "Goal">>, <<"IC", "goal">>},
         {<<"IC", "Deliverable">>, <<"IC", "deliverable">>},
         {<<"IC", "Success metrics">>, <<"IC", "success_metrics">>} } >>

\* the penalty weight of each gate, in thousandths
GateWeights == <<200, 150, 150, 100, 100>>

\* the number of required fields of gate i that are missing in bundle a
MissingCount(a, i) == Cardinality({g \in GateFields[i] : FieldMissing(a, g)})

\* max(0, 1 - min(1, 0.18 * missing_count + penalty)), in thousandths
ClaimedScore(missing_count, penalty) ==
    LET loss == IF 180 * missing_count + penalty < 1000
                THEN 180 * missing_count + penalty ELSE 1000
    IN IF 1000 - loss > 0 THEN 1000 - loss ELSE 0

\* C23: the score of every gate is max(0, 1 - min(1, 0.18 * missing_count
\* + penalty)), missing_count being the number of the gate's required
\* fields that are missing and penalty 0 or the gate's weight; it lies in
\* [0, 1]
C23_ScoreFormula ==
    audit.returned =>
        \A i \in 1..5 :
            LET gr == audit.gate_results[i]
                mc == MissingCount(artifacts, i)
            IN /\ gr.score \in {ClaimedScore(mc, 0), ClaimedScore(mc, GateWeights[i])}
               /\ gr.score >= 0
               /\ gr.score <= 1000

\* C27: minimum_fixes is empty exactly when overall_verdict is PASS: every
\* gate with verdict FAIL carries a fix, and no fix of a gate with verdict
\* PASS is in minimum_fixes
C27_FixesIffFail ==
    audit.returned =>
        /\ audit.minimum_fixes = <<>> <=> audit.overall_verdict = "PASS"
        /\ \A i \in 1..Len(audit.gate_results) :
               LET gr == audit.gate_results[i]
               IN /\ gr.verdict = "FAIL" => gr.fixes # <<>>
                  /\ gr.verdict = "PASS" =>
                         Range(gr.fixes) \cap Range(audit.minimum_fixes) = {}

\* a report that fails in which a passed gate carries a soft-heuristic fix
C27_Witness ==
    /\ audit.returned
    /\ \E i \in 1..5 :
           audit.gate_results[i].verdict = "PASS" /\ audit.gate_results[i].fixes # <<>>
    /\ \E i \in 1..5 : audit.gate_results[i].verdict = "FAIL"
    /\ audit.minimum_fixes # <<>>

\* C28: a gate result with verdict FAIL has a score below 1.0
C28_FailBelowPerfect ==
    audit.returned =>
        \A i \in 1..Len(audit.gate_results) :
            audit.gate_results[i].verdict = "FAIL" => audit.gate_results[i].score < 1000

\* the report has a note of this kind for entry k of the file
Noted(kind, k) == Note(kind, Obj(k)) \in Range(report.notes)

\* entry k of the file does not continue the chain of the entry before it
ChainBroken(k) ==
    Obj(k).prev_hash # (IF k = 1 THEN NoHash ELSE Obj(k - 1).hash)

\* C24: with a secret, append writes signature = HMAC(secret, hash), and
\* verify_chain counts an entry whose stored signature differs as bad;
\* without a secret, append writes signature "", and verify_chain makes no
\* signature check, reports signature_enabled = false and still makes the
\* prev_hash and hash checks
C24_Signatures ==
    /\ last.op = "append" =>
           LET e == Obj(Len(file))
               secret == mem[last.who].secret
           IN e.signature =
                  IF secret = "" THEN NoHash ELSE HmacSha256Hex(secret, e.hash)
    /\ (last.op = "verify_chain" /\ ~report.raised) =>
           LET secret == mem[last.who].secret
           IN IF secret # ""
              THEN \A k \in 1..Len(file) :
                       Obj(k).signature # HmacSha256Hex(secret, Obj(k).hash) =>
                           /\ report.bad > 0
                           /\ ~report.ok
                           /\ Noted("Signature mismatch", k)
              ELSE /\ "signature_enabled" \in report.keys
                   /\ ~report.signature_enabled
                   /\ \A k \in 1..Len(file) :
                          /\ ~Noted("Signature mismatch", k)
                          /\ ChainBroken(k) => Noted("Chain mismatch", k)
                          /\ Obj(k).hash # ExpectedHash(Obj(k)) => Noted("Hash mismatch", k)

\* ---------------------------------------------------------------------
\* Properties of a run
\* ---------------------------------------------------------------------
\* the events of the run's log, in file order
RunEvents == [k \in 1..Len(file) |-> Obj(k).event]

ExpectedEvents ==
    <<"RUN_START", "AUDIT_REPORT">>
    \o (IF run.has_metrics THEN <<"FALSIFIER_RESULT">> ELSE <<>>)
    \o <<"RUN_END">>

RunOver == run.pc \in {"returned", "raised"}

\* C29: every run writes RUN_START, AUDIT_REPORT, FALSIFIER_RESULT exactly
\* when metrics_current is not None, and RUN_END, in this order and with the
\* sequence numbers 0, 1, 2, ...; RUN_END is the last entry of the log
C29_EventOrder ==
    /\ \A k \in 1..Len(file) : Obj(k).seq = k - 1
    /\ Len(file) <= Len(ExpectedEvents)
    /\ RunEvents = SubSeq(ExpectedEvents, 1, Len(file))
    /\ RunOver => RunEvents = ExpectedEvents

\* C30: the final status of a run that returned is BLOCKED_BY_AUDIT whenever
\* the audit verdict is FAIL, FALSIFIED_IN_MONITORING exactly when the audit
\* verdict is PASS and the falsifier verdict is FALSIFIED, PASS otherwise;
\* without metrics_current the falsifier is not evaluated and reported as OK
C30_FinalStatus ==
    run.pc = "returned" =>
        /\ run.audit_overall = audit.overall_verdict
        /\ run.audit_overall \in {"PASS", "FAIL"}
        /\ run.has_metrics =>
               falsifier.returned /\ run.falsifier_verdict = falsifier.verdict
        /\ ~run.has_metrics =>
               falsifier = NoFalsifierResult /\ run.falsifier_verdict = "OK"
        /\ run.audit_overall = "FAIL" => run.final_status = "BLOCKED_BY_AUDIT"
        /\ run.final_status = "FALSIFIED_IN_MONITORING"
               <=> (run.audit_overall = "PASS" /\ run.falsifier_verdict = "FALSIFIED")
        /\ (run.audit_overall = "PASS" /\ run.falsifier_verdict # "FALSIFIED")
               => run.final_status = "PASS"
        /\ Obj(Len(file)).event = "RUN_END"
        /\ Obj(Len(file)).payload = run.final_status

C30_Witness ==
    /\ run.pc = "returned"
    /\ run.has_metrics
    /\ run.audit_overall = "FAIL"
    /\ run.falsifier_verdict = "FALSIFIED"
    /\ run.final_status = "BLOCKED_BY_AUDIT"

====
